---- MODULE Spec2Model ----
(***************************************************************************)
(* Reconciliation service: the match engine (internal/matching), the       *)
(* batch persister (internal/services), the single-flight admission of the *)
(* HTTP handler (internal/handlers) and the MySQL store they write to.     *)
(*                                                                         *)
(* Amounts are whole currency units, dates are day numbers, confidences    *)
(* are hundredths (1.00 = 100), reference and invoice numbers are          *)
(* sequences of characters so that strings.Contains is a real substring    *)
(* test.                                                                   *)
(***************************************************************************)
EXTENDS Integers, Sequences, FiniteSets, TLC

(***************************************************************************)
(* Constants of match_engine.go (confidences in hundredths, the amount     *)
(* tolerance in percent).                                                  *)
(***************************************************************************)
PerfectMatchConfidence == 100
HighMatchConfidence == 95
MediumMatchConfidence == 80
LowMatchConfidence == 60
AmountTolerancePercent == 1
DateToleranceDays == 3

(* models.go: mapping types, audit actions *)
MappingOneToOne == "one_to_one"
MappingOneToMany == "one_to_many"
AuditActionMatched == "matched"
AuditActionUnmatched == "unmatched"

(***************************************************************************)
(* Bounds of the engine specification: the longest candidate sequences.    *)
(***************************************************************************)
MaxBank == 2
MaxAcct == 3

Abs(x) == IF x < 0 THEN 0 - x ELSE x

(* strings.Contains(s, sub) on character sequences *)
Contains(s, sub) ==
    \E i \in 0..(Len(s) - Len(sub)) : SubSeq(s, i + 1, i + Len(sub)) = sub

(* diff <= amount * AmountTolerancePercent, the float comparison of the engine *)
WithinTolerance(diff, amount) == diff * 100 <= amount * AmountTolerancePercent

(* a claim map that never shows an id as claimed *)
NeverProcessed(processedIDs, id) == FALSE

(* processedBankIDs[id] / processedAccountingIDs[id] / processedIDs[id] *)
Processed(processedIDs, id) == id \in processedIDs

(* the nil *MatchResult *)
Nil == [Type |-> "nil"]

(* the one-to-one score without the reference veto: unequal references add
   nothing and leave the amount and date score standing *)
checkOneToOneKeepScore(bt, ae) ==
    LET amountDiff == Abs(bt.Amount - ae.Amount)
        dateDiff == Abs(bt.TransactionDate - ae.EntryDate)
        cAmount == IF amountDiff = 0 THEN 40 ELSE 30
        cDate == IF dateDiff = 0 THEN 30
                 ELSE IF dateDiff <= DateToleranceDays THEN 20 ELSE 0
        sameRef == /\ bt.ReferenceNumber # <<>> /\ ae.InvoiceNumber # <<>>
                   /\ bt.ReferenceNumber = ae.InvoiceNumber
        confidence == cAmount + cDate + (IF sameRef THEN 30 ELSE 0)
    IN  IF amountDiff # 0 /\ ~WithinTolerance(amountDiff, bt.Amount)
        THEN Nil
        ELSE IF confidence >= LowMatchConfidence
             THEN [Type |-> MappingOneToOne,
                   Confidence |-> confidence,
                   BankTransaction |-> bt,
                   AccountingEntries |-> <<ae>>,
                   AmountDifference |-> amountDiff,
                   MatchCriteria |-> <<"amount">>]
             ELSE Nil

(* a one-to-one score that grants the same-day bonus to every date within
   the tolerance *)
checkOneToOneDateFlat(bt, ae) ==
    LET amountDiff == Abs(bt.Amount - ae.Amount)
        dateDiff == Abs(bt.TransactionDate - ae.EntryDate)
        cAmount == IF amountDiff = 0 THEN 40 ELSE 30
        cDate == IF dateDiff <= DateToleranceDays THEN 30 ELSE 0
        critDate == IF dateDiff <= DateToleranceDays THEN <<"date">> ELSE <<>>
        bothRefs == bt.ReferenceNumber # <<>> /\ ae.InvoiceNumber # <<>>
        sameRef == bothRefs /\ bt.ReferenceNumber = ae.InvoiceNumber
        confidence == IF bothRefs
                      THEN IF sameRef THEN cAmount + cDate + 30 ELSE 0
                      ELSE cAmount + cDate
        critRef == IF sameRef THEN <<"reference">> ELSE <<>>
    IN  IF amountDiff # 0 /\ ~WithinTolerance(amountDiff, bt.Amount)
        THEN Nil
        ELSE IF confidence >= LowMatchConfidence
             THEN [Type |-> MappingOneToOne,
                   Confidence |-> confidence,
                   BankTransaction |-> bt,
                   AccountingEntries |-> <<ae>>,
                   AmountDifference |-> amountDiff,
                   MatchCriteria |-> <<"amount">> \o critDate \o critRef]
             ELSE Nil

(***************************************************************************)
(* checkOneToOneMatch: additive score of one bank row against one entry.   *)
(***************************************************************************)
checkOneToOneMatch(bt, ae) ==
    LET amountDiff == Abs(bt.Amount - ae.Amount)
        dateDiff == Abs(bt.TransactionDate - ae.EntryDate)
        cAmount == IF amountDiff = 0 THEN 40 ELSE 30
        cDate == IF dateDiff = 0 THEN 30
                 ELSE IF dateDiff <= DateToleranceDays THEN 20 ELSE 0
        critDate == IF dateDiff <= DateToleranceDays THEN <<"date">> ELSE <<>>
        bothRefs == bt.ReferenceNumber # <<>> /\ ae.InvoiceNumber # <<>>
        sameRef == bothRefs /\ bt.ReferenceNumber = ae.InvoiceNumber
        confidence == IF bothRefs
                      THEN IF sameRef THEN cAmount + cDate + 30 ELSE 0
                      ELSE cAmount + cDate
        critRef == IF sameRef THEN <<"reference">> ELSE <<>>
    IN  IF amountDiff # 0 /\ ~WithinTolerance(amountDiff, bt.Amount)
        THEN Nil
        ELSE IF confidence >= LowMatchConfidence
             THEN [Type |-> MappingOneToOne,
                   Confidence |-> confidence,
                   BankTransaction |-> bt,
                   AccountingEntries |-> <<ae>>,
                   AmountDifference |-> amountDiff,
                   MatchCriteria |-> <<"amount">> \o critDate \o critRef]
             ELSE Nil

RECURSIVE SumAmounts(_)
SumAmounts(entries) ==
    IF entries = <<>> THEN 0
    ELSE Head(entries).Amount + SumAmounts(Tail(entries))

RECURSIVE MaxDateDiff(_, _)
MaxDateDiff(bt, entries) ==
    IF entries = <<>> THEN 0
    ELSE LET d == Abs(bt.TransactionDate - Head(entries).EntryDate)
             m == MaxDateDiff(bt, Tail(entries))
         IN  IF d > m THEN d ELSE m

(* the entries of a combination whose invoice number contains the reference *)
RefMatchCount(bt, entries) ==
    Cardinality({i \in 1..Len(entries) :
        /\ entries[i].InvoiceNumber # <<>>
        /\ Contains(entries[i].InvoiceNumber, bt.ReferenceNumber)})

(* the fan-out score without the clamp to HighMatchConfidence *)
UnclampedOneToManyConfidence(bt, entries, amountDiff) ==
    70 + (IF amountDiff = 0 THEN 20
          ELSE IF WithinTolerance(amountDiff, bt.Amount) THEN 10 ELSE 0)
       + (IF MaxDateDiff(bt, entries) <= DateToleranceDays THEN 10 ELSE 0)
       + (IF bt.ReferenceNumber # <<>> /\ RefMatchCount(bt, entries) > 0
          THEN (10 * RefMatchCount(bt, entries)) \div Len(entries) ELSE 0)

(* a fan-out score that grants the date bonus whatever the dates *)
OneToManyConfidenceDateBlind(bt, entries, amountDiff) ==
    LET cAmount == IF amountDiff = 0 THEN 20
                   ELSE IF WithinTolerance(amountDiff, bt.Amount) THEN 10 ELSE 0
        matchCount == RefMatchCount(bt, entries)
        cRef == IF bt.ReferenceNumber # <<>> /\ matchCount > 0
                THEN (10 * matchCount) \div Len(entries) ELSE 0
        confidence == 70 + cAmount + 10 + cRef
    IN  IF confidence > HighMatchConfidence THEN HighMatchConfidence ELSE confidence

(***************************************************************************)
(* calculateOneToManyConfidence.  The reference bonus is                   *)
(* 0.1 * matchCount / len(entries); the integer quotient is exact whenever *)
(* every entry matches, which the candidate filter guarantees.             *)
(***************************************************************************)
calculateOneToManyConfidence(bt, entries, amountDiff) ==
    LET cAmount == IF amountDiff = 0 THEN 20
                   ELSE IF WithinTolerance(amountDiff, bt.Amount) THEN 10 ELSE 0
        cDate == IF MaxDateDiff(bt, entries) <= DateToleranceDays THEN 10 ELSE 0
        matchCount == RefMatchCount(bt, entries)
        cRef == IF bt.ReferenceNumber # <<>> /\ matchCount > 0
                THEN (10 * matchCount) \div Len(entries) ELSE 0
        confidence == 70 + cAmount + cDate + cRef
    IN  IF confidence > HighMatchConfidence THEN HighMatchConfidence ELSE confidence

(* a findCombinations that keeps every combination, whatever its sum *)
RECURSIVE findCombinationsAnySum(_, _, _, _)
findCombinationsAnySum(candidates, size, targetAmount, current) ==
    IF size = 0
    THEN <<current>>
    ELSE IF Len(candidates) < size
         THEN <<>>
         ELSE findCombinationsAnySum(Tail(candidates), size - 1, targetAmount,
                                     Append(current, Head(candidates)))
              \o findCombinationsAnySum(Tail(candidates), size, targetAmount, current)

(***************************************************************************)
(* findCombinations: the size-element subsequences of candidates whose sum *)
(* is within tolerance of targetAmount, in depth-first order.              *)
(***************************************************************************)
RECURSIVE findCombinations(_, _, _, _)
findCombinations(candidates, size, targetAmount, current) ==
    IF size = 0
    THEN IF WithinTolerance(Abs(targetAmount - SumAmounts(current)), targetAmount)
         THEN <<current>> ELSE <<>>
    ELSE IF Len(candidates) < size
         THEN <<>>
         ELSE findCombinations(Tail(candidates), size - 1, targetAmount,
                               Append(current, Head(candidates)))
              \o findCombinations(Tail(candidates), size, targetAmount, current)

(* a candidate filter that looks at the claim and the amount only *)
RECURSIVE FilterByAmount(_, _, _, _)
FilterByAmount(bt, entries, processedIDs, candidates) ==
    IF entries = <<>> THEN candidates
    ELSE LET ae == Head(entries)
             keep == /\ ~Processed(processedIDs, ae.ID)
                     /\ ae.Amount <= bt.Amount
         IN  FilterByAmount(bt, Tail(entries), processedIDs,
                            IF keep THEN <<ae>> \o candidates ELSE candidates)

(* the candidate filter of findPossibleEntryCombinations: each hit is prepended *)
RECURSIVE FilterCandidates(_, _, _, _)
FilterCandidates(bt, entries, processedIDs, candidates) ==
    IF entries = <<>> THEN candidates
    ELSE LET ae == Head(entries)
             keep == /\ ~Processed(processedIDs, ae.ID)
                     /\ ae.Amount <= bt.Amount
                     /\ bt.ReferenceNumber # <<>>
                     /\ ae.InvoiceNumber # <<>>
                     /\ Contains(ae.InvoiceNumber, bt.ReferenceNumber)
         IN  FilterCandidates(bt, Tail(entries), processedIDs,
                              IF keep THEN <<ae>> \o candidates ELSE candidates)

findPossibleEntryCombinations(accountingEntries, bt, processedIDs) ==
    LET candidates == FilterCandidates(bt, accountingEntries, processedIDs, <<>>)
    IN  findCombinations(candidates, 1, bt.Amount, <<>>)
        \o findCombinations(candidates, 2, bt.Amount, <<>>)
        \o findCombinations(candidates, 3, bt.Amount, <<>>)

OneToManyCriteria(bt, entries) ==
    <<"amount">>
    \o (IF MaxDateDiff(bt, entries) <= DateToleranceDays THEN <<"date">> ELSE <<>>)
    \o (IF bt.ReferenceNumber # <<>> /\ RefMatchCount(bt, entries) > 0
        THEN <<"reference">> ELSE <<>>)

(* the loop of findOneToManyMatch over the combinations *)
RECURSIVE BestCombination(_, _, _, _)
BestCombination(bt, combinations, minDifference, bestMatch) ==
    IF combinations = <<>> THEN bestMatch
    ELSE LET entries == Head(combinations)
             difference == Abs(bt.Amount - SumAmounts(entries))
             confidence == calculateOneToManyConfidence(bt, entries, difference)
         IN  IF difference < minDifference
             THEN BestCombination(bt, Tail(combinations), difference,
                      IF confidence >= MediumMatchConfidence
                      THEN [Type |-> MappingOneToMany,
                            Confidence |-> confidence,
                            BankTransaction |-> bt,
                            AccountingEntries |-> entries,
                            AmountDifference |-> difference,
                            MatchCriteria |-> OneToManyCriteria(bt, entries)]
                      ELSE bestMatch)
             ELSE BestCombination(bt, Tail(combinations), minDifference, bestMatch)

findOneToManyMatch(accountingEntries, bt, processedIDs) ==
    BestCombination(bt, findPossibleEntryCombinations(accountingEntries, bt, processedIDs),
                    bt.Amount, Nil)

(***************************************************************************)
(* ProcessMatches, pass by pass.  The engine state st carries results and  *)
(* the two claim maps processedBankIDs / processedAccountingIDs.           *)
(***************************************************************************)
EngineStart == [results |-> <<>>, processedBankIDs |-> {}, processedAccountingIDs |-> {}]

(* a pass 1 that takes the first unclaimed entry of any accepted score *)
RECURSIVE FirstAcceptable(_, _, _)
FirstAcceptable(bt, entries, processedIDs) ==
    IF entries = <<>> THEN Nil
    ELSE LET ae == Head(entries)
             result == checkOneToOneMatch(bt, ae)
         IN  IF ~Processed(processedIDs, ae.ID) /\ result # Nil
             THEN result
             ELSE FirstAcceptable(bt, Tail(entries), processedIDs)

(* inner loop of pass 1: the first unclaimed entry scoring exactly PERFECT *)
RECURSIVE FirstPerfect(_, _, _)
FirstPerfect(bt, entries, processedIDs) ==
    IF entries = <<>> THEN Nil
    ELSE LET ae == Head(entries)
             result == checkOneToOneMatch(bt, ae)
         IN  IF ~Processed(processedIDs, ae.ID) /\ result # Nil
                /\ result.Confidence = PerfectMatchConfidence
             THEN result
             ELSE FirstPerfect(bt, Tail(entries), processedIDs)

RECURSIVE Pass1(_, _, _)
Pass1(bankTransactions, accountingEntries, st) ==
    IF bankTransactions = <<>> THEN st
    ELSE LET bt == Head(bankTransactions)
             result == IF Processed(st.processedBankIDs, bt.ID) THEN Nil
                       ELSE FirstPerfect(bt, accountingEntries, st.processedAccountingIDs)
         IN  Pass1(Tail(bankTransactions), accountingEntries,
                   IF result = Nil THEN st
                   ELSE [results |-> Append(st.results, result),
                         processedBankIDs |-> st.processedBankIDs \cup {bt.ID},
                         processedAccountingIDs |->
                             st.processedAccountingIDs \cup {result.AccountingEntries[1].ID}])

RECURSIVE Pass2(_, _, _)
Pass2(bankTransactions, accountingEntries, st) ==
    IF bankTransactions = <<>> THEN st
    ELSE LET bt == Head(bankTransactions)
             result == IF Processed(st.processedBankIDs, bt.ID) THEN Nil
                       ELSE findOneToManyMatch(accountingEntries, bt,
                                               st.processedAccountingIDs)
         IN  Pass2(Tail(bankTransactions), accountingEntries,
                   IF result = Nil THEN st
                   ELSE [results |-> Append(st.results, result),
                         processedBankIDs |-> st.processedBankIDs \cup {bt.ID},
                         processedAccountingIDs |->
                             st.processedAccountingIDs
                             \cup {result.AccountingEntries[i].ID :
                                      i \in 1..Len(result.AccountingEntries)}])

(* The order of the float64 confidence of a one-to-one result.  The code
   adds 0.4 or 0.3, then 0.3 or 0.2, then 0.3 in float64: 0.4 + 0.2 gives
   0.6000000000000001 (and 0.9000000000000001 with the reference), above
   0.3 + 0.3 = 0.6, and 0.3 + 0.3 + 0.3 gives 0.8999999999999999; every
   other sum is the double nearest to its hundredths.  Tenths of hundredths
   keep that order. *)
Float64Order(result) ==
    IF result = Nil THEN 0
    ELSE LET dateDiff == Abs(result.BankTransaction.TransactionDate
                             - result.AccountingEntries[1].EntryDate)
         IN  10 * result.Confidence
             + (IF result.AmountDifference = 0 /\ dateDiff # 0
                   /\ dateDiff <= DateToleranceDays
                THEN 1
                ELSE IF result.AmountDifference # 0 /\ dateDiff = 0
                        /\ result.Confidence = 90
                     THEN 0 - 1 ELSE 0)

(* a pass 3 that keeps the first unclaimed entry it accepts *)
RECURSIVE FirstOneToOne(_, _, _, _)
FirstOneToOne(bt, entries, processedIDs, bestMatch) ==
    IF entries = <<>> THEN bestMatch
    ELSE LET ae == Head(entries)
             result == checkOneToOneMatch(bt, ae)
         IN  FirstOneToOne(bt, Tail(entries), processedIDs,
                 IF ~Processed(processedIDs, ae.ID) /\ result # Nil /\ bestMatch = Nil
                 THEN result ELSE bestMatch)

(* inner loop of pass 3: the unclaimed entry of strictly greatest confidence *)
RECURSIVE BestOneToOne(_, _, _, _)
BestOneToOne(bt, entries, processedIDs, bestMatch) ==
    IF entries = <<>> THEN bestMatch
    ELSE LET ae == Head(entries)
             result == checkOneToOneMatch(bt, ae)
             bestConfidence == Float64Order(bestMatch)
         IN  BestOneToOne(bt, Tail(entries), processedIDs,
                 IF ~Processed(processedIDs, ae.ID) /\ result # Nil
                    /\ Float64Order(result) > bestConfidence
                 THEN result ELSE bestMatch)

RECURSIVE Pass3(_, _, _)
Pass3(bankTransactions, accountingEntries, st) ==
    IF bankTransactions = <<>> THEN st
    ELSE LET bt == Head(bankTransactions)
             bestMatch == IF Processed(st.processedBankIDs, bt.ID) THEN Nil
                          ELSE BestOneToOne(bt, accountingEntries,
                                            st.processedAccountingIDs, Nil)
         IN  Pass3(Tail(bankTransactions), accountingEntries,
                   IF bestMatch # Nil /\ bestMatch.Confidence >= LowMatchConfidence
                   THEN [results |-> Append(st.results, bestMatch),
                         processedBankIDs |-> st.processedBankIDs \cup {bt.ID},
                         processedAccountingIDs |->
                             st.processedAccountingIDs
                             \cup {bestMatch.AccountingEntries[1].ID}]
                   ELSE st)

(* ProcessMatches on a fixed engine input *)
ProcessMatches(bankTransactions, accountingEntries) ==
    Pass3(bankTransactions, accountingEntries,
          Pass2(bankTransactions, accountingEntries,
                Pass1(bankTransactions, accountingEntries, EngineStart))).results

(***************************************************************************)
(* The engine built with another AmountTolerancePercent: the same code     *)
(* with the constant of match_engine.go line 19 set to tol percent.  The   *)
(* tolerance enters at the three comparisons of checkOneToOneMatch,        *)
(* findCombinations and calculateOneToManyConfidence.                      *)
(***************************************************************************)
MaxTolerance == 2

Tolerances == 0..MaxTolerance

WithinToleranceAt(tol, diff, amount) == diff * 100 <= amount * tol

checkOneToOneMatchAt(tol, bt, ae) ==
    LET amountDiff == Abs(bt.Amount - ae.Amount)
        dateDiff == Abs(bt.TransactionDate - ae.EntryDate)
        cAmount == IF amountDiff = 0 THEN 40 ELSE 30
        cDate == IF dateDiff = 0 THEN 30
                 ELSE IF dateDiff <= DateToleranceDays THEN 20 ELSE 0
        critDate == IF dateDiff <= DateToleranceDays THEN <<"date">> ELSE <<>>
        bothRefs == bt.ReferenceNumber # <<>> /\ ae.InvoiceNumber # <<>>
        sameRef == bothRefs /\ bt.ReferenceNumber = ae.InvoiceNumber
        confidence == IF bothRefs
                      THEN IF sameRef THEN cAmount + cDate + 30 ELSE 0
                      ELSE cAmount + cDate
        critRef == IF sameRef THEN <<"reference">> ELSE <<>>
    IN  IF amountDiff # 0 /\ ~WithinToleranceAt(tol, amountDiff, bt.Amount)
        THEN Nil
        ELSE IF confidence >= LowMatchConfidence
             THEN [Type |-> MappingOneToOne,
                   Confidence |-> confidence,
                   BankTransaction |-> bt,
                   AccountingEntries |-> <<ae>>,
                   AmountDifference |-> amountDiff,
                   MatchCriteria |-> <<"amount">> \o critDate \o critRef]
             ELSE Nil

calculateOneToManyConfidenceAt(tol, bt, entries, amountDiff) ==
    LET cAmount == IF amountDiff = 0 THEN 20
                   ELSE IF WithinToleranceAt(tol, amountDiff, bt.Amount) THEN 10 ELSE 0
        cDate == IF MaxDateDiff(bt, entries) <= DateToleranceDays THEN 10 ELSE 0
        matchCount == RefMatchCount(bt, entries)
        cRef == IF bt.ReferenceNumber # <<>> /\ matchCount > 0
                THEN (10 * matchCount) \div Len(entries) ELSE 0
        confidence == 70 + cAmount + cDate + cRef
    IN  IF confidence > HighMatchConfidence THEN HighMatchConfidence ELSE confidence

RECURSIVE findCombinationsAt(_, _, _, _, _)
findCombinationsAt(tol, candidates, size, targetAmount, current) ==
    IF size = 0
    THEN IF WithinToleranceAt(tol, Abs(targetAmount - SumAmounts(current)), targetAmount)
         THEN <<current>> ELSE <<>>
    ELSE IF Len(candidates) < size
         THEN <<>>
         ELSE findCombinationsAt(tol, Tail(candidates), size - 1, targetAmount,
                                 Append(current, Head(candidates)))
              \o findCombinationsAt(tol, Tail(candidates), size, targetAmount, current)

findPossibleEntryCombinationsAt(tol, accountingEntries, bt, processedIDs) ==
    LET candidates == FilterCandidates(bt, accountingEntries, processedIDs, <<>>)
    IN  findCombinationsAt(tol, candidates, 1, bt.Amount, <<>>)
        \o findCombinationsAt(tol, candidates, 2, bt.Amount, <<>>)
        \o findCombinationsAt(tol, candidates, 3, bt.Amount, <<>>)

RECURSIVE BestCombinationAt(_, _, _, _, _)
BestCombinationAt(tol, bt, combinations, minDifference, bestMatch) ==
    IF combinations = <<>> THEN bestMatch
    ELSE LET entries == Head(combinations)
             difference == Abs(bt.Amount - SumAmounts(entries))
             confidence == calculateOneToManyConfidenceAt(tol, bt, entries, difference)
         IN  IF difference < minDifference
             THEN BestCombinationAt(tol, bt, Tail(combinations), difference,
                      IF confidence >= MediumMatchConfidence
                      THEN [Type |-> MappingOneToMany,
                            Confidence |-> confidence,
                            BankTransaction |-> bt,
                            AccountingEntries |-> entries,
                            AmountDifference |-> difference,
                            MatchCriteria |-> OneToManyCriteria(bt, entries)]
                      ELSE bestMatch)
             ELSE BestCombinationAt(tol, bt, Tail(combinations), minDifference, bestMatch)

findOneToManyMatchAt(tol, accountingEntries, bt, processedIDs) ==
    BestCombinationAt(tol, bt,
                      findPossibleEntryCombinationsAt(tol, accountingEntries, bt,
                                                      processedIDs),
                      bt.Amount, Nil)

RECURSIVE FirstPerfectAt(_, _, _, _)
FirstPerfectAt(tol, bt, entries, processedIDs) ==
    IF entries = <<>> THEN Nil
    ELSE LET ae == Head(entries)
             result == checkOneToOneMatchAt(tol, bt, ae)
         IN  IF ~Processed(processedIDs, ae.ID) /\ result # Nil
                /\ result.Confidence = PerfectMatchConfidence
             THEN result
             ELSE FirstPerfectAt(tol, bt, Tail(entries), processedIDs)

RECURSIVE Pass1At(_, _, _, _)
Pass1At(tol, bankTransactions, accountingEntries, st) ==
    IF bankTransactions = <<>> THEN st
    ELSE LET bt == Head(bankTransactions)
             result == IF Processed(st.processedBankIDs, bt.ID) THEN Nil
                       ELSE FirstPerfectAt(tol, bt, accountingEntries,
                                           st.processedAccountingIDs)
         IN  Pass1At(tol, Tail(bankTransactions), accountingEntries,
                     IF result = Nil THEN st
                     ELSE [results |-> Append(st.results, result),
                           processedBankIDs |-> st.processedBankIDs \cup {bt.ID},
                           processedAccountingIDs |->
                               st.processedAccountingIDs
                               \cup {result.AccountingEntries[1].ID}])

RECURSIVE Pass2At(_, _, _, _)
Pass2At(tol, bankTransactions, accountingEntries, st) ==
    IF bankTransactions = <<>> THEN st
    ELSE LET bt == Head(bankTransactions)
             result == IF Processed(st.processedBankIDs, bt.ID) THEN Nil
                       ELSE findOneToManyMatchAt(tol, accountingEntries, bt,
                                                 st.processedAccountingIDs)
         IN  Pass2At(tol, Tail(bankTransactions), accountingEntries,
                     IF result = Nil THEN st
                     ELSE [results |-> Append(st.results, result),
                           processedBankIDs |-> st.processedBankIDs \cup {bt.ID},
                           processedAccountingIDs |->
                               st.processedAccountingIDs
                               \cup {result.AccountingEntries[i].ID :
                                        i \in 1..Len(result.AccountingEntries)}])

RECURSIVE BestOneToOneAt(_, _, _, _, _)
BestOneToOneAt(tol, bt, entries, processedIDs, bestMatch) ==
    IF entries = <<>> THEN bestMatch
    ELSE LET ae == Head(entries)
             result == checkOneToOneMatchAt(tol, bt, ae)
             bestConfidence == Float64Order(bestMatch)
         IN  BestOneToOneAt(tol, bt, Tail(entries), processedIDs,
                 IF ~Processed(processedIDs, ae.ID) /\ result # Nil
                    /\ Float64Order(result) > bestConfidence
                 THEN result ELSE bestMatch)

RECURSIVE Pass3At(_, _, _, _)
Pass3At(tol, bankTransactions, accountingEntries, st) ==
    IF bankTransactions = <<>> THEN st
    ELSE LET bt == Head(bankTransactions)
             bestMatch == IF Processed(st.processedBankIDs, bt.ID) THEN Nil
                          ELSE BestOneToOneAt(tol, bt, accountingEntries,
                                              st.processedAccountingIDs, Nil)
         IN  Pass3At(tol, Tail(bankTransactions), accountingEntries,
                     IF bestMatch # Nil /\ bestMatch.Confidence >= LowMatchConfidence
                     THEN [results |-> Append(st.results, bestMatch),
                           processedBankIDs |-> st.processedBankIDs \cup {bt.ID},
                           processedAccountingIDs |->
                               st.processedAccountingIDs
                               \cup {bestMatch.AccountingEntries[1].ID}]
                     ELSE st)

ProcessMatchesAt(tol, bankTransactions, accountingEntries) ==
    Pass3At(tol, bankTransactions, accountingEntries,
            Pass2At(tol, bankTransactions, accountingEntries,
                    Pass1At(tol, bankTransactions, accountingEntries, EngineStart))).results

(***************************************************************************)
(* The store and the requests.                                             *)
(***************************************************************************)
MaxFaults == 1
MaxClock == 1

(* the StartReconciliation requests, numbered so that the windows they carry
   do not decrease: which of two requests is called 1 is immaterial *)
Requests == {1, 2}

(* from_date / to_date pairs a client may send (day numbers) *)
Windows == {<<1, 1>>, <<1, 2>>, <<1, 3>>, <<3, 3>>}

WindowLeq(v, w) == v[1] < w[1] \/ (v[1] = w[1] /\ v[2] <= w[2])

RequestWindows ==
    {t \in [Requests -> Windows] :
        \A p, q \in Requests : p < q => WindowLeq(t[p], t[q])}

(* rows ingested before the runs; ids grow with the dates, so the primary-key
   scan and the date-index scan return them in the same order *)
BankRows ==
    { [ID |-> 1, Amount |-> 100, TransactionDate |-> 1, ReferenceNumber |-> <<"A">>],
      [ID |-> 2, Amount |-> 100, TransactionDate |-> 3, ReferenceNumber |-> <<"B">>] }

AccountingRows ==
    { [ID |-> 1, Amount |-> 100, EntryDate |-> 1, InvoiceNumber |-> <<"A">>],
      [ID |-> 2, Amount |-> 60, EntryDate |-> 2, InvoiceNumber |-> <<"B">>],
      [ID |-> 3, Amount |-> 40, EntryDate |-> 2, InvoiceNumber |-> <<"B">>] }

(* status ENUM of the reconciliations table *)
StatusEnum == {"matched", "unmatched_bank", "unmatched_accounting", "disputed"}

VARIABLES
    sqlStrict,        \* the server runs with STRICT_TRANS_TABLES
    clock,            \* the latest wall-clock second a request has read
    faults,           \* store errors injected so far
    activeProcesses,  \* ReconciliationHandler.activeProcesses (keys mapped to true)
    matchEngine,      \* the shared MatchEngine: bankTransactions, accountingEntries
    db,               \* tables (committed rows), open transactions, AUTO_INCREMENT
    req,              \* per request: handler and service locals, goroutines
    statusRead,       \* what the last GetReconciliationStatus call returned
    ingestion,        \* the last ingestion call: its input and its response
    resolution        \* the last ResolveDispute call: its batch id and its response

vars == <<sqlStrict, clock, faults, activeProcesses, matchEngine, db, req, statusRead, ingestion, resolution>>

NoID == [tx |-> 0, n |-> 0]
NotLoaded == "pending"
LoadError == "error"
NoRows == [reconciliations |-> {}, mappings |-> {}, audit |-> {}]

(* the rows of set S as a sequence in ascending id order *)
RECURSIVE InIDOrder(_)
InIDOrder(S) ==
    IF S = {} THEN <<>>
    ELSE LET first == CHOOSE x \in S : \A y \in S : x.ID <= y.ID
         IN  <<first>> \o InIDOrder(S \ {first})

(* a loader without the join: every entry dated in the window, mapped or not *)
GetEntriesByDate(d, fromDate, toDate) ==
    InIDOrder({ae \in d.accounting_entries :
        ae.EntryDate >= fromDate /\ ae.EntryDate <= toDate})

(***************************************************************************)
(* bankRepository.GetUnreconciledTransactions: LEFT JOIN ... WHERE         *)
(* rm.id IS NULL, on the committed rows (the query runs on r.db).          *)
(***************************************************************************)
GetUnreconciledTransactions(d, fromDate, toDate) ==
    InIDOrder({bt \in d.bank_transactions :
        /\ bt.TransactionDate >= fromDate /\ bt.TransactionDate <= toDate
        /\ ~\E rm \in d.committed.mappings : rm.bank_transaction_id = bt.ID})

GetUnreconciledEntries(d, fromDate, toDate) ==
    InIDOrder({ae \in d.accounting_entries :
        /\ ae.EntryDate >= fromDate /\ ae.EntryDate <= toDate
        /\ ~\E rm \in d.committed.mappings : rm.accounting_entry_id = ae.ID})

(***************************************************************************)
(* database/sql transactions on InnoDB: rows written through tx are        *)
(* pending until Commit, discarded by Rollback; Exec on a finished tx      *)
(* fails (ErrTxDone).                                                      *)
(***************************************************************************)
TxBegin(d, r) == [d EXCEPT !.tx[r] = "open", !.pending[r] = NoRows]

TxOpen(d, r) == d.tx[r] = "open"

TxInsert(d, r, table, row) == [d EXCEPT !.pending[r][table] = @ \cup {row}]

(* LastInsertId of the reconciliations table, the one id the code reads back
   (as the foreign key of mappings and audit rows): ids are unique and grow in
   insertion order; the model names a row by its transaction and its ordinal
   among that transaction's inserts *)
NextID(d, r) == [tx |-> r, n |-> d.nextID[r]]

PublishPending(d, r) ==
    [reconciliations |-> d.committed.reconciliations \cup d.pending[r].reconciliations,
     mappings |-> d.committed.mappings \cup d.pending[r].mappings,
     audit |-> d.committed.audit \cup d.pending[r].audit]

TxCommit(d, r) ==
    [d EXCEPT !.committed = PublishPending(d, r), !.pending[r] = NoRows,
              !.tx[r] = "committed"]

(* a rollback that publishes what the transaction wrote *)
RollbackPublishes(d, r) ==
    [d EXCEPT !.committed = PublishPending(d, r), !.pending[r] = NoRows,
              !.tx[r] = "rolledback"]

(* tx.Rollback() is a no-op on a finished transaction *)
TxRollback(d, r) ==
    IF TxOpen(d, r)
    THEN [d EXCEPT !.pending[r] = NoRows, !.tx[r] = "rolledback"]
    ELSE d

(* what MySQL stores for a status: outside the ENUM the insert is refused in
   strict mode and stores the empty string otherwise *)
StoredStatus(status) == IF status \in StatusEnum THEN status ELSE ""

(***************************************************************************)
(* reconciliationRepository.Create*: the row as written, with the writing  *)
(* transaction recorded in field by.                                       *)
(***************************************************************************)
CreateReconciliation(d, r, rec) ==
    [TxInsert(d, r, "reconciliations",
              [id |-> NextID(d, r), by |-> r,
               reconciliation_batch_id |-> rec.BatchID,
               status |-> StoredStatus(rec.Status),
               match_confidence |-> rec.MatchConfidence,
               amount_difference |-> rec.AmountDifference])
     EXCEPT !.nextID[r] = @ + 1]

CreateMapping(d, r, mapping) ==
    TxInsert(d, r, "mappings",
             [by |-> r, reconciliation_id |-> mapping.ReconciliationID,
              bank_transaction_id |-> mapping.BankTransactionID,
              accounting_entry_id |-> mapping.AccountingEntryID,
              mapping_type |-> mapping.MappingType])

(* an audit insert that writes nothing *)
SkipAuditEntry(d, r, audit) == d

CreateAuditEntry(d, r, audit) ==
    TxInsert(d, r, "audit",
             [by |-> r, reconciliation_id |-> audit.ReconciliationID,
              action |-> audit.Action])

(* the insert is refused: finished transaction, or a status MySQL rejects *)
InsertRefused(d, r, strict, status) ==
    \/ ~TxOpen(d, r)
    \/ strict /\ status \notin StatusEnum

(* a query that also sees the rows of unfinished transactions *)
ReadUncommitted(d, batchID) ==
    {rec \in d.committed.reconciliations
              \cup UNION {d.pending[r].reconciliations : r \in Requests} :
        rec.reconciliation_batch_id = batchID}

(* GetReconciliationByBatchID: QueryRow on r.db, committed rows only *)
GetReconciliationByBatchID(d, batchID) ==
    {rec \in d.committed.reconciliations : rec.reconciliation_batch_id = batchID}

(***************************************************************************)
(* Initial state: the tables as ingested, no request has arrived.          *)
(***************************************************************************)
IdleRequest ==
    [pc |-> "idle", window |-> <<0, 0>>,
     bankLoad |-> NotLoaded, bankTransactions |-> <<>>,
     accountingLoad |-> NotLoaded, accountingEntries |-> <<>>,
     batchID |-> 0, matches |-> <<>>, workers |-> <<>>,
     unmatchedBank |-> <<>>, unmatchedAccounting |-> <<>>, um |-> <<>>, umRecID |-> NoID,
     response |-> [code |-> 0, BatchID |-> 0, Status |-> ""]]

EmptyDB ==
    [bank_transactions |-> BankRows, accounting_entries |-> AccountingRows,
     committed |-> NoRows,
     pending |-> [r \in Requests |-> NoRows],
     tx |-> [r \in Requests |-> "none"],
     nextID |-> [r \in Requests |-> 1]]

NoStatusRead == [found |-> FALSE, BatchID |-> 0 - 1, Status |-> ""]

(* no ingestion call and no ResolveDispute call has been made *)
NoIngestion == [source |-> "none", input |-> <<>>, code |-> 0, RecordsCount |-> 0,
                Errors |-> <<>>]

NoResolution == [BatchID |-> 0 - 1, code |-> 0, ID |-> NoID, calls |-> 0]

Init ==
    /\ sqlStrict \in BOOLEAN
    /\ clock = 0
    /\ faults = 0
    /\ activeProcesses = {}
    /\ matchEngine = [bankTransactions |-> <<>>, accountingEntries |-> <<>>]
    /\ db = EmptyDB
    /\ \E t \in RequestWindows :
            req = [r \in Requests |-> [IdleRequest EXCEPT !.window = t[r]]]
    /\ statusRead = NoStatusRead
    /\ ingestion = NoIngestion
    /\ resolution = NoResolution



(* a store call may fail while the fault budget lasts *)
FaultChoice == IF faults < MaxFaults THEN BOOLEAN ELSE {FALSE}

Fault(fail) == faults' = IF fail THEN faults + 1 ELSE faults

(* a key made of from_date alone: windows that start on the same day share it *)
ProcessKeyFromDate(w) == w[1]

(* processKey := request.FromDate + "_" + request.ToDate *)
ProcessKey(w) == w

(* a handler that never finds the key: the check of the map is lost *)
NeverActive(active, key) == FALSE

(* h.activeProcesses[processKey] *)
AlreadyActive(active, key) == key \in active

(* a deferred function that leaves the key in the map *)
KeepKey(active, key) == active

(* delete(h.activeProcesses, processKey) *)
DeleteKey(active, key) == active \ {key}

(* the request holds its key: admitted and not yet past the deferred delete *)
InFlight(r) == req[r].pc \notin {"idle", "rejected", "done"}

Respond(code, batchID, status) == [code |-> code, BatchID |-> batchID, Status |-> status]

(***************************************************************************)
(* StartReconciliation, admission under processingMutex.                   *)
(***************************************************************************)
Admit(r) ==
    /\ req[r].pc = "idle"
    /\ IF AlreadyActive(activeProcesses, ProcessKey(req[r].window))
       THEN /\ req' = [req EXCEPT ![r].pc = "rejected",
                                  ![r].response = Respond(409, 0, "")]
            /\ UNCHANGED activeProcesses
       ELSE /\ activeProcesses' = activeProcesses \cup {ProcessKey(req[r].window)}
            /\ req' = [req EXCEPT ![r].pc = "load"]
    /\ UNCHANGED <<sqlStrict, clock, faults, matchEngine, db, statusRead, ingestion, resolution>>

(* the two loader goroutines of the handler *)
LoadBank(r) ==
    /\ req[r].pc = "load"
    /\ req[r].bankLoad = NotLoaded
    /\ \E fail \in FaultChoice :
        /\ Fault(fail)
        /\ req' = IF fail
                  THEN [req EXCEPT ![r].bankLoad = LoadError]
                  ELSE [req EXCEPT ![r].bankLoad = "ok",
                                   ![r].bankTransactions =
                                       GetUnreconciledTransactions(db, req[r].window[1],
                                                                   req[r].window[2])]
    /\ UNCHANGED <<sqlStrict, clock, activeProcesses, matchEngine, db, statusRead, ingestion, resolution>>

LoadAccounting(r) ==
    /\ req[r].pc = "load"
    /\ req[r].accountingLoad = NotLoaded
    /\ \E fail \in FaultChoice :
        /\ Fault(fail)
        /\ req' = IF fail
                  THEN [req EXCEPT ![r].accountingLoad = LoadError]
                  ELSE [req EXCEPT ![r].accountingLoad = "ok",
                                   ![r].accountingEntries =
                                       GetUnreconciledEntries(db, req[r].window[1],
                                                              req[r].window[2])]
    /\ UNCHANGED <<sqlStrict, clock, activeProcesses, matchEngine, db, statusRead, ingestion, resolution>>

(***************************************************************************)
(* wg.Wait and the channel selects of the handler, then the head of        *)
(* ProcessReconciliationWithData: db.Begin and the batch id, formatted     *)
(* from time.Now() to the second: now is a second not before any second    *)
(* an earlier call has seen.                                               *)
(***************************************************************************)
BeginBatch(r, now) ==
    /\ req[r].pc = "load"
    /\ req[r].bankLoad # NotLoaded
    /\ req[r].accountingLoad # NotLoaded
    /\ IF req[r].bankLoad = LoadError \/ req[r].accountingLoad = LoadError
       THEN /\ req' = [req EXCEPT ![r].pc = "exit", ![r].response = Respond(500, 0, "")]
            /\ UNCHANGED <<faults, db, clock>>
       ELSE \E fail \in FaultChoice :
            /\ Fault(fail)
            /\ IF fail
               THEN /\ req' = [req EXCEPT ![r].pc = "exit",
                                          ![r].response = Respond(500, 0, "")]
                    /\ UNCHANGED <<db, clock>>
               ELSE /\ db' = TxBegin(db, r)
                    /\ clock' = now
                    /\ req' = [req EXCEPT ![r].pc = "setdata", ![r].batchID = now]
    /\ UNCHANGED <<sqlStrict, activeProcesses, matchEngine, statusRead, ingestion, resolution>>

(* s.matchEngine.SetData on the engine every request shares *)
SetData(r) ==
    /\ req[r].pc = "setdata"
    /\ matchEngine' = [bankTransactions |-> req[r].bankTransactions,
                       accountingEntries |-> req[r].accountingEntries]
    /\ req' = [req EXCEPT ![r].pc = "match"]
    /\ UNCHANGED <<sqlStrict, clock, faults, activeProcesses, db, statusRead, ingestion, resolution>>

NewWorker == [pc |-> "rec", recID |-> NoID, idx |-> 1]

(* an engine that keeps its claims from run to run: the entries the
   proposals of other requests hold are not candidates *)
RunProcessMatchesCarryOver(r) ==
    /\ req[r].pc = "match"
    /\ LET others == UNION {{req[q].matches[k] : k \in 1..Len(req[q].matches)} :
                                q \in Requests \ {r}}
           held == UNION {{m.AccountingEntries[j].ID :
                              j \in 1..Len(m.AccountingEntries)} : m \in others}
           Free(ae) == ae.ID \notin held
           results == ProcessMatches(matchEngine.bankTransactions,
                                     SelectSeq(matchEngine.accountingEntries, Free))
       IN  req' = [req EXCEPT ![r].pc = "persist",
                              ![r].matches = results,
                              ![r].workers = [i \in 1..Len(results) |-> NewWorker]]
    /\ UNCHANGED <<sqlStrict, clock, faults, activeProcesses, matchEngine, db, statusRead, ingestion, resolution>>

(* the ProcessMatches goroutine: the three passes over the fields of the
   shared engine, the result sent on matchChan, and one persisting
   goroutine spawned per match *)
RunProcessMatches(r) ==
    /\ req[r].pc = "match"
    /\ LET results == ProcessMatches(matchEngine.bankTransactions,
                                     matchEngine.accountingEntries)
       IN  req' = [req EXCEPT ![r].pc = "persist",
                              ![r].matches = results,
                              ![r].workers = [i \in 1..Len(results) |-> NewWorker]]
    /\ UNCHANGED <<sqlStrict, clock, faults, activeProcesses, matchEngine, db, statusRead, ingestion, resolution>>

(***************************************************************************)
(* The per-match goroutines of ProcessReconciliationWithData.  They share  *)
(* tx and keep running after the collecting loop has returned.             *)
(***************************************************************************)
WorkerCreateReconciliation(r, i) ==
    /\ i \in DOMAIN req[r].workers
    /\ req[r].workers[i].pc = "rec"
    /\ LET m == req[r].matches[i]
           refused == InsertRefused(db, r, sqlStrict, "matched")
       IN  \E fail \in (IF refused THEN {FALSE} ELSE FaultChoice) :
            /\ Fault(fail)
            /\ IF fail \/ refused
               THEN /\ req' = [req EXCEPT ![r].workers[i].pc = "err"]
                    /\ UNCHANGED db
               ELSE /\ db' = CreateReconciliation(db, r,
                                [BatchID |-> req[r].batchID, Status |-> "matched",
                                 MatchConfidence |-> m.Confidence,
                                 AmountDifference |-> m.AmountDifference])
                    /\ req' = [req EXCEPT ![r].workers[i].pc = "map",
                                          ![r].workers[i].recID =
                                              NextID(db, r)]
    /\ UNCHANGED <<sqlStrict, clock, activeProcesses, matchEngine, statusRead, ingestion, resolution>>

(* one CreateMapping per accounting entry of the match (one for one_to_one) *)
WorkerCreateMapping(r, i) ==
    /\ i \in DOMAIN req[r].workers
    /\ req[r].workers[i].pc = "map"
    /\ LET m == req[r].matches[i]
           w == req[r].workers[i]
           last == m.Type = MappingOneToOne \/ w.idx = Len(m.AccountingEntries)
           refused == InsertRefused(db, r, sqlStrict, "matched")
       IN  \E fail \in (IF refused THEN {FALSE} ELSE FaultChoice) :
            /\ Fault(fail)
            /\ IF fail \/ refused
               THEN /\ req' = [req EXCEPT ![r].workers[i].pc = "err"]
                    /\ UNCHANGED db
               ELSE /\ db' = CreateMapping(db, r,
                                [ReconciliationID |-> w.recID,
                                 BankTransactionID |-> m.BankTransaction.ID,
                                 AccountingEntryID |-> m.AccountingEntries[w.idx].ID,
                                 MappingType |-> m.Type])
                    /\ req' = IF last
                              THEN [req EXCEPT ![r].workers[i].pc = "audit"]
                              ELSE [req EXCEPT ![r].workers[i].idx = w.idx + 1]
    /\ UNCHANGED <<sqlStrict, clock, activeProcesses, matchEngine, statusRead, ingestion, resolution>>

WorkerCreateAuditEntry(r, i) ==
    /\ i \in DOMAIN req[r].workers
    /\ req[r].workers[i].pc = "audit"
    /\ LET w == req[r].workers[i]
           refused == InsertRefused(db, r, sqlStrict, "matched")
       IN  \E fail \in (IF refused THEN {FALSE} ELSE FaultChoice) :
            /\ Fault(fail)
            /\ IF fail \/ refused
               THEN /\ req' = [req EXCEPT ![r].workers[i].pc = "err"]
                    /\ UNCHANGED db
               ELSE /\ db' = CreateAuditEntry(db, r,
                                [ReconciliationID |-> w.recID,
                                 Action |-> AuditActionMatched])
                    /\ req' = [req EXCEPT ![r].workers[i].pc = "done"]
    /\ UNCHANGED <<sqlStrict, clock, activeProcesses, matchEngine, statusRead, ingestion, resolution>>

(* range processChan meets a result with err: return it, the deferred
   tx.Rollback() runs *)
ReturnPersistError(r) ==
    /\ req[r].pc = "persist"
    /\ \E i \in DOMAIN req[r].workers : req[r].workers[i].pc = "err"
    /\ db' = TxRollback(db, r)
    /\ req' = [req EXCEPT ![r].pc = "exit",
                          ![r].response = Respond(500, 0, "")]
    /\ UNCHANGED <<sqlStrict, clock, faults, activeProcesses, matchEngine, statusRead, ingestion, resolution>>

(* the ids the goroutines report for their matches *)
RECURSIVE ProcessedAccountingIDs(_)
ProcessedAccountingIDs(matches) ==
    IF matches = <<>> THEN {}
    ELSE LET m == Head(matches)
         IN  (IF m.Type = MappingOneToOne
              THEN {m.AccountingEntries[1].ID}
              ELSE {m.AccountingEntries[k].ID : k \in 1..Len(m.AccountingEntries)})
             \cup ProcessedAccountingIDs(Tail(matches))

ProcessedBankIDs(matches) == {matches[k].BankTransaction.ID : k \in 1..Len(matches)}

(* processChan is closed with every result good: the unmatched rows *)
CollectResults(r) ==
    /\ req[r].pc = "persist"
    /\ \A i \in DOMAIN req[r].workers : req[r].workers[i].pc = "done"
    /\ LET pb == ProcessedBankIDs(req[r].matches)
           pa == ProcessedAccountingIDs(req[r].matches)
           IsUnmatchedBank(bt) == bt.ID \notin pb
           IsUnmatchedAccounting(ae) == ae.ID \notin pa
           ub == SelectSeq(req[r].bankTransactions, IsUnmatchedBank)
           ua == SelectSeq(req[r].accountingEntries, IsUnmatchedAccounting)
       IN  req' = [req EXCEPT ![r].pc = IF ua = <<>> THEN "commit" ELSE "um_rec",
                              ![r].unmatchedBank = ub,
                              ![r].unmatchedAccounting = ua]
    /\ UNCHANGED <<sqlStrict, clock, faults, activeProcesses, matchEngine, db, statusRead, ingestion, resolution>>

(* the loop over unmatchedAccounting: a reconciliations row of status
   "unmatched", then its audit row *)
UnmatchedCreateReconciliation(r) ==
    /\ req[r].pc = "um_rec"
    /\ LET refused == InsertRefused(db, r, sqlStrict, "unmatched")
       IN  \E fail \in (IF refused THEN {FALSE} ELSE FaultChoice) :
            /\ Fault(fail)
            /\ IF fail \/ refused
               THEN /\ db' = TxRollback(db, r)
                    /\ req' = [req EXCEPT ![r].pc = "exit",
                                          ![r].response = Respond(500, 0, "")]
               ELSE /\ db' = CreateReconciliation(db, r,
                                [BatchID |-> req[r].batchID, Status |-> "unmatched",
                                 MatchConfidence |-> 0, AmountDifference |-> 0])
                    /\ req' = [req EXCEPT ![r].pc = "um_audit",
                                          ![r].umRecID =
                                              NextID(db, r)]
    /\ UNCHANGED <<sqlStrict, clock, activeProcesses, matchEngine, statusRead, ingestion, resolution>>

UnmatchedCreateAuditEntry(r) ==
    /\ req[r].pc = "um_audit"
    /\ LET entry == req[r].unmatchedAccounting[Len(req[r].um) + 1]
           um == Append(req[r].um, entry.ID)
       IN  \E fail \in FaultChoice :
            /\ Fault(fail)
            /\ IF fail
               THEN /\ db' = TxRollback(db, r)
                    /\ req' = [req EXCEPT ![r].pc = "exit",
                                          ![r].response = Respond(500, 0, "")]
               ELSE /\ db' = CreateAuditEntry(db, r,
                                [ReconciliationID |-> req[r].umRecID,
                                 Action |-> AuditActionUnmatched])
                    /\ req' = [req EXCEPT
                                 ![r].um = um,
                                 ![r].pc = IF Len(um) = Len(req[r].unmatchedAccounting)
                                           THEN "commit" ELSE "um_rec"]
    /\ UNCHANGED <<sqlStrict, clock, activeProcesses, matchEngine, statusRead, ingestion, resolution>>

(* tx.Commit(); on failure nothing is published and the request fails *)
Commit(r) ==
    /\ req[r].pc = "commit"
    /\ \E fail \in FaultChoice :
        /\ Fault(fail)
        /\ IF fail
           THEN /\ db' = TxRollback(db, r)
                /\ req' = [req EXCEPT ![r].pc = "exit",
                                      ![r].response = Respond(500, 0, "")]
           ELSE /\ db' = TxCommit(db, r)
                /\ req' = [req EXCEPT
                             ![r].pc = "exit",
                             ![r].response =
                                 Respond(200, req[r].batchID,
                                         IF Len(req[r].um) > 0 THEN "completed"
                                         ELSE "matches")]
    /\ UNCHANGED <<sqlStrict, clock, activeProcesses, matchEngine, statusRead, ingestion, resolution>>

(* the deferred delete(h.activeProcesses, processKey) *)
Release(r) ==
    /\ req[r].pc = "exit"
    /\ activeProcesses' = DeleteKey(activeProcesses, ProcessKey(req[r].window))
    /\ req' = [req EXCEPT ![r].pc = "done"]
    /\ UNCHANGED <<sqlStrict, clock, faults, matchEngine, db, statusRead, ingestion, resolution>>

(***************************************************************************)
(* ReconciliationService.GetReconciliationStatus: the first row the query  *)
(* returns for the batch id, or "reconciliation not found".                *)
(***************************************************************************)
GetReconciliationStatus(batchID) ==
    /\ LET rows == GetReconciliationByBatchID(db, batchID)
       IN  IF rows = {}
           THEN statusRead' = [found |-> FALSE, BatchID |-> batchID, Status |-> ""]
           ELSE \E rec \in rows :
                    statusRead' = [found |-> TRUE, BatchID |-> rec.reconciliation_batch_id,
                                   Status |-> rec.status]
    /\ UNCHANGED <<sqlStrict, clock, faults, activeProcesses, matchEngine, db, req,
                   ingestion, resolution>>

(* the seconds time.Now() may show: the first db.Begin of a run fixes the
   origin, later calls read that second or a later one *)
Seconds == IF \A r \in Requests : db.tx[r] = "none" THEN {clock} ELSE clock..MaxClock

Next ==
    \/ \E r \in Requests : Admit(r)
    \/ \E r \in Requests : LoadBank(r)
    \/ \E r \in Requests : LoadAccounting(r)
    \/ \E r \in Requests, now \in Seconds : BeginBatch(r, now)
    \/ \E r \in Requests : SetData(r)
    \/ \E r \in Requests : RunProcessMatches(r)
    \/ \E r \in Requests, i \in 1..MaxBank : WorkerCreateReconciliation(r, i)
    \/ \E r \in Requests, i \in 1..MaxBank : WorkerCreateMapping(r, i)
    \/ \E r \in Requests, i \in 1..MaxBank : WorkerCreateAuditEntry(r, i)
    \/ \E r \in Requests : ReturnPersistError(r)
    \/ \E r \in Requests : CollectResults(r)
    \/ \E r \in Requests : UnmatchedCreateReconciliation(r)
    \/ \E r \in Requests : UnmatchedCreateAuditEntry(r)
    \/ \E r \in Requests : Commit(r)
    \/ \E r \in Requests : Release(r)

Spec == Init /\ [][Next]_vars

(***************************************************************************)
(* The requests one after the other: a request arrives when no other is in *)
(* flight.  The goroutines a failed request left behind may still run.     *)
(***************************************************************************)
AdmitNext(r) ==
    /\ \A q \in Requests : ~InFlight(q)
    /\ Admit(r)

(* the steps of the handler, the persister and their goroutines *)
SeqSteps ==
    \/ \E r \in Requests : AdmitNext(r)
    \/ \E r \in Requests : LoadBank(r)
    \/ \E r \in Requests : LoadAccounting(r)
    \/ \E r \in Requests, now \in Seconds : BeginBatch(r, now)
    \/ \E r \in Requests : SetData(r)
    \/ \E r \in Requests, i \in 1..MaxBank : WorkerCreateReconciliation(r, i)
    \/ \E r \in Requests, i \in 1..MaxBank : WorkerCreateMapping(r, i)
    \/ \E r \in Requests, i \in 1..MaxBank : WorkerCreateAuditEntry(r, i)
    \/ \E r \in Requests : ReturnPersistError(r)
    \/ \E r \in Requests : CollectResults(r)
    \/ \E r \in Requests : UnmatchedCreateReconciliation(r)
    \/ \E r \in Requests : UnmatchedCreateAuditEntry(r)
    \/ \E r \in Requests : Commit(r)
    \/ \E r \in Requests : Release(r)

SeqNext ==
    \/ SeqSteps
    \/ \E r \in Requests : RunProcessMatches(r)

SeqSpec == Init /\ [][SeqNext]_vars

(* Scheduling: the Go runtime runs every goroutine that can run and every
   store call returns, so a step that stays possible is taken; and the
   loops of ProcessMatches end, so no request stays in it for ever. *)
FairSpec ==
    /\ SeqSpec
    /\ WF_vars(SeqSteps)
    /\ []<>(\A r \in Requests : req[r].pc # "match")

(***************************************************************************)
(* The same with a client polling GetReconciliationStatus at any time.     *)
(***************************************************************************)
StatusNext ==
    \/ SeqNext
    \/ \E batchID \in 0..MaxClock : GetReconciliationStatus(batchID)

StatusSpec == Init /\ [][StatusNext]_vars

(***************************************************************************)
(* The engine on arbitrary candidates: a request stands after db.Begin     *)
(* with candidate sequences B and A of distinct ids in any order (the      *)
(* loaders state no ORDER BY), drawn from rows that cover an exact pair,   *)
(* amounts inside and outside the tolerance, dates inside and outside the  *)
(* tolerance, empty, equal, unequal and substring references, fan-outs of  *)
(* one and two entries, and a negative amount.                             *)
(***************************************************************************)
EngineBankRows ==
    { [ID |-> 1, Amount |-> 100, TransactionDate |-> 1, ReferenceNumber |-> <<"A">>],
      [ID |-> 2, Amount |-> 100, TransactionDate |-> 3, ReferenceNumber |-> <<"B">>],
      [ID |-> 3, Amount |-> 100, TransactionDate |-> 1, ReferenceNumber |-> <<>>],
      [ID |-> 4, Amount |-> 0 - 50, TransactionDate |-> 5,
       ReferenceNumber |-> <<"A", "B">>] }

EngineAccountingRows ==
    { [ID |-> 1, Amount |-> 100, EntryDate |-> 1, InvoiceNumber |-> <<"A">>],
      [ID |-> 2, Amount |-> 60, EntryDate |-> 2, InvoiceNumber |-> <<"B">>],
      [ID |-> 3, Amount |-> 40, EntryDate |-> 2, InvoiceNumber |-> <<"B">>],
      [ID |-> 4, Amount |-> 101, EntryDate |-> 1, InvoiceNumber |-> <<>>],
      [ID |-> 5, Amount |-> 99, EntryDate |-> 9, InvoiceNumber |-> <<"A", "B">>],
      [ID |-> 6, Amount |-> 0 - 50, EntryDate |-> 5, InvoiceNumber |-> <<"A", "B">>] }

EngineWindow == <<1, 9>>

(* the sequences of at most n distinct rows of S *)
DistinctSeqs(S, n) ==
    {q \in UNION {[1..k -> S] : k \in 0..n} :
        \A i, j \in 1..Len(q) : i # j => q[i] # q[j]}

RowSet(q) == {q[i] : i \in 1..Len(q)}

EngineInit ==
    /\ sqlStrict = TRUE
    /\ clock = 0
    /\ faults = 0
    /\ activeProcesses = {ProcessKey(EngineWindow)}
    /\ matchEngine = [bankTransactions |-> <<>>, accountingEntries |-> <<>>]
    /\ statusRead = NoStatusRead
    /\ ingestion = NoIngestion
    /\ resolution = NoResolution
    /\ \E B \in DistinctSeqs(EngineBankRows, MaxBank),
          A \in DistinctSeqs(EngineAccountingRows, MaxAcct) :
        /\ db = TxBegin([EmptyDB EXCEPT !.bank_transactions = RowSet(B),
                                        !.accounting_entries = RowSet(A)], 1)
        /\ req = [r \in Requests |->
                     IF \A q \in Requests : r <= q
                     THEN [IdleRequest EXCEPT !.pc = "setdata",
                                              !.window = EngineWindow,
                                              !.bankLoad = "ok",
                                              !.bankTransactions = B,
                                              !.accountingLoad = "ok",
                                              !.accountingEntries = A]
                     ELSE [IdleRequest EXCEPT !.window = EngineWindow]]

EngineNext ==
    \/ \E r \in Requests : SetData(r)
    \/ \E r \in Requests : RunProcessMatches(r)

EngineSpec == EngineInit /\ [][EngineNext]_vars

(***************************************************************************)
(* Properties.                                                             *)
(***************************************************************************)
(* the committed rows of a table that request r wrote *)
RowsBy(table, r) == {row \in table : row.by = r}

CommittedRowsBy(r) ==
    RowsBy(db.committed.reconciliations, r)
    \cup RowsBy(db.committed.mappings, r)
    \cup RowsBy(db.committed.audit, r)

(* C1: of two StartReconciliation requests with the same (from_date,
   to_date) at most one is in flight at any time; the other one is rejected
   with 409 while the first holds the key, and a rejected request has
   loaded no candidates and opened no store transaction. *)
C1_SingleFlight ==
    /\ \A p, q \in Requests :
           (p # q /\ req[p].window = req[q].window) => ~(InFlight(p) /\ InFlight(q))
    /\ \A r \in Requests :
           req[r].pc = "rejected" =>
              /\ req[r].response.code = 409
              /\ req[r].bankLoad = NotLoaded
              /\ req[r].accountingLoad = NotLoaded
              /\ db.tx[r] = "none"
              /\ \E q \in Requests \ {r} :
                     /\ req[q].window = req[r].window
                     /\ req[q].pc \notin {"idle", "rejected"}

(* a request is rejected while the other, same window, is persisting *)
C1_Witness ==
    \E p, q \in Requests :
        /\ p # q
        /\ req[p].window = req[q].window
        /\ req[p].pc = "rejected"
        /\ req[q].pc = "persist"
        /\ db.tx[q] = "open"

(* C2: when a request has failed (a loader, db.Begin, CreateReconciliation,
   CreateMapping, CreateAuditEntry or Commit returned an error, also while
   other goroutines of the request were still writing on the transaction),
   the tables hold no reconciliation, mapping or audit row that the request
   wrote, then and at any later time. *)
C2_Atomicity ==
    \A r \in Requests :
        req[r].response.code = 500 => CommittedRowsBy(r) = {}

(* the request failed after it had inserted rows, its transaction is rolled
   back, and two of its goroutines ended in an error: with one injected
   fault the second one is a goroutine whose write the finished transaction
   refused *)
C2_Witness ==
    \E r \in Requests :
        /\ req[r].response.code = 500
        /\ db.tx[r] = "rolledback"
        /\ db.nextID[r] > 1
        /\ \E i, j \in DOMAIN req[r].workers :
               /\ i # j
               /\ req[r].workers[i].pc = "err"
               /\ req[r].workers[j].pc = "err"

(* every proposal of request r pairs rows of the candidates r loaded itself *)
OwnCandidates(r) ==
    \A k \in 1..Len(req[r].matches) :
        LET m == req[r].matches[k]
        IN  /\ \E i \in 1..Len(req[r].bankTransactions) :
                   req[r].bankTransactions[i] = m.BankTransaction
            /\ \A j \in 1..Len(m.AccountingEntries) :
                   \E i \in 1..Len(req[r].accountingEntries) :
                       req[r].accountingEntries[i] = m.AccountingEntries[j]

(* C3: in every state of the store each accounting_entry_id is carried by
   at most one committed mapping row, across all batches, also when two
   requests with overlapping, different windows run at the same time and
   both commit.  The statement is restricted to runs in which every request
   matched on its own candidates, so that what refutes it is the overlap of
   the windows alone. *)
C3_MappedAtMostOnce ==
    (\A r \in Requests : OwnCandidates(r)) =>
        \A m, n \in db.committed.mappings :
            m.accounting_entry_id = n.accounting_entry_id => m = n

(* the accounting entry ids a proposal claims *)
ClaimedEntryIDs(m) == {m.AccountingEntries[j].ID : j \in 1..Len(m.AccountingEntries)}

(* C4: in the proposal list ProcessMatches returns for candidates of
   distinct ids, no bank transaction id appears in two proposals and no
   accounting entry id appears in two proposals, every entry of a
   one_to_many proposal counted. *)
C4_ClaimDisjoint ==
    \A r \in Requests :
        \A k, l \in 1..Len(req[r].matches) :
            k # l =>
              /\ req[r].matches[k].BankTransaction.ID # req[r].matches[l].BankTransaction.ID
              /\ ClaimedEntryIDs(req[r].matches[k]) \cap ClaimedEntryIDs(req[r].matches[l]) = {}

(* two proposals, one of them over two entries, and an entry one proposal
   claims is a fan-out or one-to-one candidate of the other's bank row *)
C4_Witness ==
    \E r \in Requests :
        \E k, l \in 1..Len(req[r].matches) :
            /\ k # l
            /\ Len(req[r].matches[l].AccountingEntries) = 2
            /\ \E j \in 1..Len(req[r].matches[k].AccountingEntries) :
                  LET ae == req[r].matches[k].AccountingEntries[j]
                      bt == req[r].matches[l].BankTransaction
                  IN  \/ checkOneToOneMatch(bt, ae) # Nil
                      \/ FilterCandidates(bt, <<ae>>, {}, <<>>) # <<>>

(* C10: every proposal ProcessMatches emits has a confidence within bounds,
   a one_to_one proposal from LOW (60) to PERFECT (100), a one_to_many
   proposal from MEDIUM (80) to HIGH (95), and an amount difference that is
   not negative. *)
C10_ConfidenceBounds ==
    \A r \in Requests :
        \A k \in 1..Len(req[r].matches) :
            LET m == req[r].matches[k]
            IN  /\ m.Type \in {MappingOneToOne, MappingOneToMany}
                /\ m.Type = MappingOneToOne =>
                       /\ LowMatchConfidence <= m.Confidence
                       /\ m.Confidence <= PerfectMatchConfidence
                /\ m.Type = MappingOneToMany =>
                       /\ MediumMatchConfidence <= m.Confidence
                       /\ m.Confidence <= HighMatchConfidence
                /\ m.AmountDifference >= 0

(* a one_to_one proposal at exactly LOW beside a one_to_many proposal whose
   unclamped score is above HIGH *)
C10_Witness ==
    \E r \in Requests :
        \E k, l \in 1..Len(req[r].matches) :
            LET m == req[r].matches[k]
                n == req[r].matches[l]
            IN  /\ m.Type = MappingOneToOne
                /\ m.Confidence = LowMatchConfidence
                /\ n.Type = MappingOneToMany
                /\ n.Confidence = HighMatchConfidence
                /\ UnclampedOneToManyConfidence(n.BankTransaction, n.AccountingEntries,
                                                n.AmountDifference) > HighMatchConfidence

(* the keys of the requests in flight *)
KeysInFlight == {ProcessKey(req[r].window) : r \in {q \in Requests : InFlight(q)}}

(* C5: activeProcesses holds exactly the keys of the requests in flight, so
   it is empty when none is and a window is free again once its request has
   left; and every admitted request, whichever way it ends (success, loader
   error, persist error, commit error), reaches the deferred delete and
   releases its key. *)
C5_KeyReleased ==
    /\ [](activeProcesses = KeysInFlight)
    /\ \A r \in Requests : InFlight(r) ~> (req[r].pc = "done")

(* a request failed and released its key, and the next request for the same
   window has been admitted *)
C5_Witness ==
    \E p, q \in Requests :
        /\ p # q
        /\ req[p].window = req[q].window
        /\ req[p].pc = "done"
        /\ req[p].response.code = 500
        /\ req[q].pc = "load"
        /\ activeProcesses = {ProcessKey(req[q].window)}

(* the batch key of request r is the key of no other, committed run *)
KeyOfNoCommittedRun(r) ==
    \A q \in Requests \ {r} :
        db.tx[q] = "committed" => req[q].batchID # req[r].batchID

(* C6: GetReconciliationStatus reports only committed batches.  A status it
   returned is the status of a row whose transaction has committed; and
   while the transaction of a run is open, and for ever after its rollback,
   the query for the run's batch key finds no row (not-found), unless
   another run that committed carries the same key. *)
C6_ReadCommitted ==
    /\ statusRead.found =>
           \E rec \in db.committed.reconciliations :
               /\ rec.reconciliation_batch_id = statusRead.BatchID
               /\ rec.status = statusRead.Status
               /\ db.tx[rec.by] = "committed"
    /\ \A r \in Requests :
           (db.tx[r] \in {"open", "rolledback"} /\ KeyOfNoCommittedRun(r)) =>
               GetReconciliationByBatchID(db, req[r].batchID) = {}

(* the reader was told not-found for the key of a run whose transaction is
   open and has inserted reconciliation rows *)
C6_Witness ==
    \E r \in Requests :
        /\ db.tx[r] = "open"
        /\ db.pending[r].reconciliations # {}
        /\ KeyOfNoCommittedRun(r)
        /\ statusRead = [found |-> FALSE, BatchID |-> req[r].batchID, Status |-> ""]

(* the audit rows request r committed, by action *)
AuditRowsBy(r, action) == {a \in RowsBy(db.committed.audit, r) : a.action = action}

(* the entries of r's candidates that none of its proposals claimed *)
UnclaimedEntries(r) ==
    {i \in 1..Len(req[r].accountingEntries) :
        req[r].accountingEntries[i].ID \notin ProcessedAccountingIDs(req[r].matches)}

(* C7: once a run has committed, its audit rows are one row of action
   matched per proposal of the engine, each on a reconciliation row of its
   own, one row of action unmatched per accounting entry no proposal
   claimed, and no other row.  The rows of a run are those its transaction
   wrote. *)
C7_AuditComplete ==
    \A r \in Requests :
        db.tx[r] = "committed" =>
          /\ Cardinality(AuditRowsBy(r, AuditActionMatched)) = Len(req[r].matches)
          /\ Cardinality(AuditRowsBy(r, AuditActionUnmatched))
                 = Cardinality(UnclaimedEntries(r))
          /\ \A a \in RowsBy(db.committed.audit, r) :
                 /\ a.action \in {AuditActionMatched, AuditActionUnmatched}
                 /\ \E rec \in RowsBy(db.committed.reconciliations, r) :
                        a.reconciliation_id = rec.id
          /\ \A a, b \in RowsBy(db.committed.audit, r) :
                 a.reconciliation_id = b.reconciliation_id => a = b

(* a committed run with a proposal and with unclaimed accounting entries *)
C7_Witness ==
    \E r \in Requests :
        /\ db.tx[r] = "committed"
        /\ Len(req[r].matches) >= 1
        /\ Cardinality(UnclaimedEntries(r)) >= 2
        /\ AuditRowsBy(r, AuditActionMatched) # {}
        /\ AuditRowsBy(r, AuditActionUnmatched) # {}

(* C8: every run that succeeded has committed exactly one reconciliations
   row, whatever the number of proposals. *)
C8_OneBatchRow ==
    \A r \in Requests :
        req[r].response.code = 200 =>
            Cardinality(RowsBy(db.committed.reconciliations, r)) = 1

(* what is left unclaimed once request r has collected its proposals *)
HasResiduals(r) ==
    \/ \E i \in 1..Len(req[r].bankTransactions) :
           req[r].bankTransactions[i].ID \notin ProcessedBankIDs(req[r].matches)
    \/ UnclaimedEntries(r) # {}

(* C9: after a run succeeded, the status read back for its batch key is
   unmatched_bank when a bank transaction or an accounting entry was left
   unclaimed, and matched when nothing was. *)
C9_StoredStatus ==
    \A r \in Requests :
        (req[r].response.code = 200 /\ KeyOfNoCommittedRun(r)) =>
            LET rows == GetReconciliationByBatchID(db, req[r].batchID)
            IN  /\ rows # {}
                /\ \A rec \in rows :
                       rec.status = IF HasResiduals(r)
                                    THEN "unmatched_bank" ELSE "matched"

(* both references are present and differ *)
ReferencesDiffer(bt, ae) ==
    /\ bt.ReferenceNumber # <<>>
    /\ ae.InvoiceNumber # <<>>
    /\ bt.ReferenceNumber # ae.InvoiceNumber

(* C11: no one_to_one proposal of ProcessMatches, from pass 1 or pass 3,
   pairs a bank row with an accounting entry whose reference number and
   invoice number are both non-empty and unequal, whatever the amounts and
   the dates. *)
C11_ReferenceVeto ==
    \A r \in Requests :
        \A k \in 1..Len(req[r].matches) :
            LET m == req[r].matches[k]
            IN  m.Type = MappingOneToOne =>
                    ~ReferencesDiffer(m.BankTransaction, m.AccountingEntries[1])

(* the engine has run on a bank row and an entry with unequal references
   whose amounts are equal and whose dates are within the tolerance, the
   only candidates, and has proposed nothing *)
C11_Witness ==
    \E r \in Requests :
        /\ req[r].pc = "persist"
        /\ req[r].matches = <<>>
        /\ Len(req[r].bankTransactions) = 1
        /\ Len(req[r].accountingEntries) = 1
        /\ LET bt == req[r].bankTransactions[1]
               ae == req[r].accountingEntries[1]
           IN  /\ ReferencesDiffer(bt, ae)
               /\ bt.Amount = ae.Amount
               /\ Abs(bt.TransactionDate - ae.EntryDate) <= DateToleranceDays

(***************************************************************************)
(* Two runs of the engine on the same candidates: both requests stand      *)
(* after db.Begin with the same sequences B and A (two windows that cover  *)
(* the same rows), and the second run starts when the first has returned.  *)
(***************************************************************************)
TwinWindow == <<1, 10>>

TwinInit ==
    /\ sqlStrict = TRUE
    /\ clock = 0
    /\ faults = 0
    /\ activeProcesses = {ProcessKey(EngineWindow), ProcessKey(TwinWindow)}
    /\ matchEngine = [bankTransactions |-> <<>>, accountingEntries |-> <<>>]
    /\ statusRead = NoStatusRead
    /\ ingestion = NoIngestion
    /\ resolution = NoResolution
    /\ \E B \in DistinctSeqs(EngineBankRows, MaxBank),
          A \in DistinctSeqs(EngineAccountingRows, MaxAcct) :
        /\ db = [EmptyDB EXCEPT !.bank_transactions = RowSet(B),
                                !.accounting_entries = RowSet(A),
                                !.tx = [r \in Requests |-> "open"]]
        /\ req = [r \in Requests |->
                     [IdleRequest EXCEPT !.pc = "setdata",
                                         !.window = IF \A q \in Requests : r <= q
                                                    THEN EngineWindow ELSE TwinWindow,
                                         !.bankLoad = "ok",
                                         !.bankTransactions = B,
                                         !.accountingLoad = "ok",
                                         !.accountingEntries = A]]

(* SetData of a run while no other run is inside ProcessMatches *)
SetDataAlone(r) ==
    /\ \A q \in Requests : req[q].pc # "match"
    /\ SetData(r)

TwinNext ==
    \/ \E r \in Requests : SetDataAlone(r)
    \/ \E r \in Requests : RunProcessMatches(r)

TwinSpec == TwinInit /\ [][TwinNext]_vars

(* C12: the engine is deterministic: two runs of SetData and ProcessMatches
   on the same sequences B and A in the same order return the same proposal
   list: the same proposals, kinds, confidences and entries in the same
   order. *)
C12_Deterministic ==
    \A p, q \in Requests :
        ( /\ req[p].pc = "persist" /\ req[q].pc = "persist"
          /\ req[p].bankTransactions = req[q].bankTransactions
          /\ req[p].accountingEntries = req[q].accountingEntries )
        => req[p].matches = req[q].matches

(* two runs have returned, each with a one_to_many proposal followed by a
   one_to_one proposal *)
C12_Witness ==
    \E p, q \in Requests :
        /\ p # q
        /\ req[p].pc = "persist" /\ req[q].pc = "persist"
        /\ Len(req[p].matches) = 2
        /\ req[p].matches[1].Type = MappingOneToMany
        /\ Len(req[p].matches[1].AccountingEntries) = 2
        /\ req[p].matches[2].Type = MappingOneToOne
        /\ req[q].matches = req[p].matches

(***************************************************************************)
(* The engine on candidates whose amounts differ by one percent: pairs     *)
(* that are exact, pairs that are within the tolerance only, entries that  *)
(* sum to a bank amount within the tolerance only.                         *)
(***************************************************************************)
ToleranceBankRows ==
    { [ID |-> 1, Amount |-> 100, TransactionDate |-> 3, ReferenceNumber |-> <<"R">>],
      [ID |-> 2, Amount |-> 101, TransactionDate |-> 6, ReferenceNumber |-> <<>>],
      [ID |-> 3, Amount |-> 100, TransactionDate |-> 3, ReferenceNumber |-> <<>>] }

ToleranceAccountingRows ==
    { [ID |-> 1, Amount |-> 100, EntryDate |-> 1, InvoiceNumber |-> <<>>],
      [ID |-> 2, Amount |-> 101, EntryDate |-> 4, InvoiceNumber |-> <<"R">>],
      [ID |-> 3, Amount |-> 60, EntryDate |-> 3, InvoiceNumber |-> <<"R">>],
      [ID |-> 4, Amount |-> 41, EntryDate |-> 3, InvoiceNumber |-> <<"R">>] }

ToleranceInit ==
    /\ sqlStrict = TRUE
    /\ clock = 0
    /\ faults = 0
    /\ activeProcesses = {ProcessKey(EngineWindow)}
    /\ matchEngine = [bankTransactions |-> <<>>, accountingEntries |-> <<>>]
    /\ statusRead = NoStatusRead
    /\ ingestion = NoIngestion
    /\ resolution = NoResolution
    /\ \E B \in DistinctSeqs(ToleranceBankRows, MaxBank),
          A \in DistinctSeqs(ToleranceAccountingRows, MaxAcct) :
        /\ db = TxBegin([EmptyDB EXCEPT !.bank_transactions = RowSet(B),
                                        !.accounting_entries = RowSet(A)], 1)
        /\ req = [r \in Requests |->
                     IF \A q \in Requests : r <= q
                     THEN [IdleRequest EXCEPT !.pc = "setdata",
                                              !.window = EngineWindow,
                                              !.bankLoad = "ok",
                                              !.bankTransactions = B,
                                              !.accountingLoad = "ok",
                                              !.accountingEntries = A]
                     ELSE [IdleRequest EXCEPT !.window = EngineWindow]]

ToleranceSpec == ToleranceInit /\ [][EngineNext]_vars

(* C13: tolerance monotonicity: for the candidates of a run, the engine
   built with a greater amount tolerance emits at least as many proposals
   as the engine built with a smaller one; the run itself is the engine at
   AmountTolerancePercent. *)
C13_ToleranceMonotone ==
    \A r \in Requests :
        req[r].pc = "persist" =>
            LET Count(tol) ==
                    IF tol = AmountTolerancePercent THEN Len(req[r].matches)
                    ELSE Len(ProcessMatchesAt(tol, req[r].bankTransactions,
                                              req[r].accountingEntries))
            IN  \A lo, hi \in Tolerances : lo <= hi => Count(lo) <= Count(hi)

(***************************************************************************)
(* Ingestion (DataHandler, DataIngestionService).  A call runs in one      *)
(* transaction: each input row is validated and inserted, a row that fails *)
(* is recorded in Errors and skipped, one audit row of action created is   *)
(* written when a row was inserted, and the transaction is committed only  *)
(* when no row failed; the deferred tx.Rollback() discards it otherwise.   *)
(***************************************************************************)
MaxIngest == 2

(* the BankTransactionInput rows a client may send: two good rows, a row
   of amount 0 and a row without transaction_id; the empty date is 0 *)
BankTransactionInputs ==
    { [TransactionID |-> "TX1", AccountNumber |-> "ACC", Amount |-> 100,
       TransactionDate |-> 1, ReferenceNumber |-> <<"A">>],
      [TransactionID |-> "TX2", AccountNumber |-> "ACC", Amount |-> 100,
       TransactionDate |-> 3, ReferenceNumber |-> <<"B">>],
      [TransactionID |-> "TX3", AccountNumber |-> "ACC", Amount |-> 0,
       TransactionDate |-> 1, ReferenceNumber |-> <<>>],
      [TransactionID |-> "", AccountNumber |-> "ACC", Amount |-> 50,
       TransactionDate |-> 1, ReferenceNumber |-> <<>>] }

AccountingEntryInputs ==
    { [EntryID |-> "E1", AccountCode |-> "4000", Amount |-> 100,
       EntryDate |-> 1, InvoiceNumber |-> <<"A">>],
      [EntryID |-> "E2", AccountCode |-> "", Amount |-> 60,
       EntryDate |-> 2, InvoiceNumber |-> <<"B">>],
      [EntryID |-> "E3", AccountCode |-> "4000", Amount |-> 40,
       EntryDate |-> 0, InvoiceNumber |-> <<"B">>] }

(* the requests with at most MaxIngest rows, rows may repeat *)
InputSeqs(S) == UNION {[1..k -> S] : k \in 0..MaxIngest}

validateBankTransaction(input) ==
    /\ input.TransactionID # ""
    /\ input.AccountNumber # ""
    /\ input.Amount # 0
    /\ input.TransactionDate # 0

validateAccountingEntry(input) ==
    /\ input.EntryID # ""
    /\ input.AccountCode # ""
    /\ input.Amount # 0
    /\ input.EntryDate # 0

(* AUTO_INCREMENT of a table holding rows, some of them uncommitted *)
NextRowID(rows) ==
    IF rows = {} THEN 1
    ELSE 1 + (CHOOSE n \in {row.ID : row \in rows} : \A row \in rows : row.ID <= n)

(* InsertBankTransaction: refused when transaction_id is taken (UNIQUE),
   by a committed row or by a row of this transaction *)
InsertBankTransactionRefused(rows, bt) ==
    \E row \in rows : row.TransactionID = bt.TransactionID

InsertAccountingEntryRefused(rows, ae) ==
    \E row \in rows : row.EntryID = ae.EntryID

IngestStart == [inserted |-> {}, RecordsCount |-> 0, Errors |-> <<>>]

(* the loop of IngestBankTransactions over the input, from row i on *)
RECURSIVE IngestBankLoop(_, _, _, _)
IngestBankLoop(table, transactions, i, st) ==
    IF i > Len(transactions) THEN st
    ELSE LET input == transactions[i]
             visible == table \cup st.inserted
             row == [ID |-> NextRowID(visible),
                     TransactionID |-> input.TransactionID,
                     AccountNumber |-> input.AccountNumber,
                     Amount |-> input.Amount,
                     TransactionDate |-> input.TransactionDate,
                     ReferenceNumber |-> input.ReferenceNumber]
         IN  IngestBankLoop(table, transactions, i + 1,
                 IF ~validateBankTransaction(input)
                 THEN [st EXCEPT !.Errors = Append(@, [row |-> i, error |-> "invalid"])]
                 ELSE IF InsertBankTransactionRefused(visible, row)
                      THEN [st EXCEPT !.Errors = Append(@, [row |-> i, error |-> "insert"])]
                      ELSE [st EXCEPT !.inserted = @ \cup {row},
                                      !.RecordsCount = @ + 1])

RECURSIVE IngestAccountingLoop(_, _, _, _)
IngestAccountingLoop(table, entries, i, st) ==
    IF i > Len(entries) THEN st
    ELSE LET input == entries[i]
             visible == table \cup st.inserted
             row == [ID |-> NextRowID(visible),
                     EntryID |-> input.EntryID,
                     AccountCode |-> input.AccountCode,
                     Amount |-> input.Amount,
                     EntryDate |-> input.EntryDate,
                     InvoiceNumber |-> input.InvoiceNumber]
         IN  IngestAccountingLoop(table, entries, i + 1,
                 IF ~validateAccountingEntry(input)
                 THEN [st EXCEPT !.Errors = Append(@, [row |-> i, error |-> "invalid"])]
                 ELSE IF InsertAccountingEntryRefused(visible, row)
                      THEN [st EXCEPT !.Errors = Append(@, [row |-> i, error |-> "insert"])]
                      ELSE [st EXCEPT !.inserted = @ \cup {row},
                                      !.RecordsCount = @ + 1])

(* the audit row of an ingestion: reconciliation_id is the zero value *)
IngestAuditRow == [by |-> 0, reconciliation_id |-> NoID, action |-> "created"]

(* the ingestion commits when no row failed *)
IngestCommits(st) == st.Errors = <<>>

(* what the ingestion handlers do once the loop has run.  A store call that
   fails (Begin, the audit insert, Commit) gives 500 and nothing is kept.
   The audit insert carries reconciliation_id 0, which the foreign key of
   reconciliation_audit refuses where the server checks foreign keys. *)
IngestFinish(source, input, table, st, foreignKeyChecks, fail) ==
    IF fail \/ (st.RecordsCount > 0 /\ foreignKeyChecks)
    THEN /\ ingestion' = [source |-> source, input |-> input, code |-> 500,
                          RecordsCount |-> 0, Errors |-> <<>>]
         /\ UNCHANGED db
    ELSE /\ ingestion' = [source |-> source, input |-> input,
                          code |-> IF st.Errors = <<>> THEN 200 ELSE 206,
                          RecordsCount |-> st.RecordsCount,
                          Errors |-> st.Errors]
         /\ db' = IF IngestCommits(st)
                  THEN [db EXCEPT ![table] = @ \cup st.inserted,
                                  !.committed.audit =
                                      IF st.RecordsCount > 0
                                      THEN @ \cup {IngestAuditRow} ELSE @]
                  ELSE db

IngestBankTransactions(transactions) ==
    /\ IF transactions = <<>>
       THEN /\ ingestion' = [source |-> "bank", input |-> transactions, code |-> 400,
                             RecordsCount |-> 0, Errors |-> <<>>]
            /\ UNCHANGED <<db, faults>>
       ELSE \E foreignKeyChecks \in BOOLEAN, fail \in FaultChoice :
            /\ Fault(fail)
            /\ IngestFinish("bank", transactions, "bank_transactions",
                            IngestBankLoop(db.bank_transactions, transactions, 1,
                                           IngestStart),
                            foreignKeyChecks, fail)
    /\ UNCHANGED <<sqlStrict, clock, activeProcesses, matchEngine, req, statusRead,
                   resolution>>

IngestAccountingEntries(entries) ==
    /\ IF entries = <<>>
       THEN /\ ingestion' = [source |-> "accounting", input |-> entries, code |-> 400,
                             RecordsCount |-> 0, Errors |-> <<>>]
            /\ UNCHANGED <<db, faults>>
       ELSE \E foreignKeyChecks \in BOOLEAN, fail \in FaultChoice :
            /\ Fault(fail)
            /\ IngestFinish("accounting", entries, "accounting_entries",
                            IngestAccountingLoop(db.accounting_entries, entries, 1,
                                                 IngestStart),
                            foreignKeyChecks, fail)
    /\ UNCHANGED <<sqlStrict, clock, activeProcesses, matchEngine, req, statusRead,
                   resolution>>

(* the store before any ingestion *)
IngestInit ==
    /\ sqlStrict \in BOOLEAN
    /\ clock = 0
    /\ faults = 0
    /\ activeProcesses = {}
    /\ matchEngine = [bankTransactions |-> <<>>, accountingEntries |-> <<>>]
    /\ db = [EmptyDB EXCEPT !.bank_transactions = {}, !.accounting_entries = {}]
    /\ req = [r \in Requests |-> IdleRequest]
    /\ statusRead = NoStatusRead
    /\ ingestion = NoIngestion
    /\ resolution = NoResolution

IngestNext ==
    \/ \E transactions \in InputSeqs(BankTransactionInputs) :
           IngestBankTransactions(transactions)
    \/ \E entries \in InputSeqs(AccountingEntryInputs) :
           IngestAccountingEntries(entries)

IngestSpec == IngestInit /\ [][IngestNext]_vars
(* the rows of the last ingestion that failed, and those that did not:
   a row fails when it is invalid or its external id is taken, by a stored
   row or by an earlier row of the same request *)
IngestedTable ==
    IF ingestion.source = "bank" THEN db.bank_transactions ELSE db.accounting_entries

ExternalID(row) ==
    IF ingestion.source = "bank" THEN row.TransactionID ELSE row.EntryID

IngestMixed ==
    /\ ingestion.code \notin {0, 400}
    /\ ingestion.input # <<>>
    /\ \E i \in 1..Len(ingestion.input) :
           IF ingestion.source = "bank"
           THEN ~validateBankTransaction(ingestion.input[i])
           ELSE ~validateAccountingEntry(ingestion.input[i])
    /\ \E i \in 1..Len(ingestion.input) :
           /\ IF ingestion.source = "bank"
              THEN validateBankTransaction(ingestion.input[i])
              ELSE validateAccountingEntry(ingestion.input[i])
           /\ ingestion.code = 206 =>
                  \A k \in 1..Len(ingestion.Errors) : ingestion.Errors[k].row # i

(* C14: after an ingestion request with a row that fails validation and a
   row that succeeds, the response is 206 with the errors of the rows that
   failed and the rows that succeeded are in the store. *)
C14_PartialCommit ==
    IngestMixed =>
        /\ ingestion.code = 206
        /\ ingestion.Errors # <<>>
        /\ \A i \in 1..Len(ingestion.input) :
               (\A k \in 1..Len(ingestion.Errors) : ingestion.Errors[k].row # i)
               => \E row \in IngestedTable :
                      ExternalID(row) = ExternalID(ingestion.input[i])

(* the batch keys under which request r has committed reconciliations rows *)
CommittedBatchKeys(r) ==
    {row.reconciliation_batch_id : row \in RowsBy(db.committed.reconciliations, r)}

(* C15: two runs that commit never persist reconciliations rows under the
   same batch key, also when they work on different date windows within
   the same clock second. *)
C15_BatchKeysUnique ==
    \A r \in Requests : \A q \in Requests \ {r} :
        CommittedBatchKeys(r) \cap CommittedBatchKeys(q) = {}

(***************************************************************************)
(* ResolveDispute (handler and service): one transaction that looks the    *)
(* batch up with GetReconciliationByBatchID on the committed rows, sets    *)
(* the status of the row found to matched by its id and inserts one audit  *)
(* row of action resolved; any error leaves the deferred tx.Rollback().    *)
(***************************************************************************)
MaxResolve == 2

StatusMatched == "matched"
AuditActionResolved == "resolved"

(* the transaction of the n-th ResolveDispute call, after the requests' *)
ResolveTx(n) == Cardinality(Requests) + n

Resolved(batchID, code, id) ==
    [BatchID |-> batchID, code |-> code, ID |-> id, calls |-> resolution.calls + 1]

(* UpdateReconciliationStatus by id, committed with the audit row *)
UpdateReconciliationStatus(d, rec, status, audit) ==
    [d EXCEPT !.committed.reconciliations =
                  (@ \ {rec}) \cup {[rec EXCEPT !.status = StoredStatus(status)]},
              !.committed.audit = @ \cup {audit}]

(* QueryRow takes the first row the server returns, any row of the batch.
   RowsAffected counts changed rows: a row that is matched already and was
   stamped within the same second gives 0, which the repository reports as
   not found. *)
ResolveDispute(batchID) ==
    /\ resolution.calls < MaxResolve
    /\ \E fail \in FaultChoice :
       /\ Fault(fail)
       /\ LET rows == GetReconciliationByBatchID(db, batchID)
          IN  IF fail \/ rows = {}
              THEN /\ resolution' = Resolved(batchID, 500, NoID)
                   /\ UNCHANGED db
              ELSE \E rec \in rows, changed \in BOOLEAN :
                   /\ changed \/ rec.status = StatusMatched
                   /\ IF ~changed
                      THEN /\ resolution' = Resolved(batchID, 500, rec.id)
                           /\ UNCHANGED db
                      ELSE /\ resolution' = Resolved(batchID, 200, rec.id)
                           /\ db' = UpdateReconciliationStatus(db, rec, StatusMatched,
                                        [by |-> ResolveTx(resolution.calls + 1),
                                         reconciliation_id |-> rec.id,
                                         action |-> AuditActionResolved])
    /\ UNCHANGED <<sqlStrict, clock, activeProcesses, matchEngine, req, statusRead,
                   ingestion>>

ResolveNext ==
    \/ SeqNext
    \/ \E batchID \in 0..MaxClock : ResolveDispute(batchID)

ResolveSpec == Init /\ [][ResolveNext]_vars

(* C16: after a ResolveDispute call that succeeded, the batch has status
   matched (every row a status read of that key may return) and the audit
   trail holds exactly one resolved row of that call; after a call that
   failed, no status of the batch and no audit row has changed. *)
C16_ResolveDispute ==
    resolution.code = 200 =>
        /\ \A rec \in GetReconciliationByBatchID(db, resolution.BatchID) :
               rec.status = StatusMatched
        /\ Cardinality({a \in db.committed.audit :
                            /\ a.by = ResolveTx(resolution.calls)
                            /\ a.action = AuditActionResolved}) = 1

(* the proposals of request r whose reconciliations row has been inserted *)
Inserted(r) ==
    {i \in DOMAIN req[r].workers : req[r].workers[i].pc \in {"map", "audit", "done"}}

(* C17: within one batch the rows of the proposals are written in the
   order ProcessMatches emitted them: when proposal i precedes proposal j
   in the list, the store-assigned id of the row of i is smaller than the
   id of the row of j. *)
C17_EmissionOrder ==
    \A r \in Requests : \A i \in Inserted(r) : \A j \in Inserted(r) :
        i < j => req[r].workers[i].recID.n < req[r].workers[j].recID.n

(***************************************************************************)
(* The report of a run that succeeded, as ProcessReconciliationWithData    *)
(* assembles it from its local lists (rows are named by their ids).        *)
(***************************************************************************)
(* trID of an unmatched entry: the last bank row of the request whose
   reference equals the entry's invoice number, 0 when there is none *)
RECURSIVE LastWithReference(_, _, _, _)
LastWithReference(bankTransactions, invoice, i, trID) ==
    IF i > Len(bankTransactions) THEN trID
    ELSE LastWithReference(bankTransactions, invoice, i + 1,
             IF bankTransactions[i].ReferenceNumber = invoice
             THEN bankTransactions[i].ID ELSE trID)

UnmatchResult(r, unmatch) ==
    [BankTransactions |->
         LastWithReference(req[r].bankTransactions, unmatch.InvoiceNumber, 1, 0),
     AccountingEntries |-> <<unmatch.ID>>]

ReconciliationResult(r) ==
    [BatchID |-> req[r].response.BatchID,
     Status |-> req[r].response.Status,
     Matches |-> req[r].matches,
     Unmatched |-> [k \in 1..Len(req[r].um) |->
                        UnmatchResult(r, req[r].unmatchedAccounting[k])],
     Summary |-> [total_processed |-> Len(req[r].bankTransactions)
                                          + Len(req[r].accountingEntries),
                  matched |-> Len(req[r].matches),
                  unmatched |-> Len(req[r].unmatchedBank),
                  disputed |-> 0]]

(* the bank rows and the entries the unmatched part of a report names *)
ReportedBank(report) ==
    {report.Unmatched[k].BankTransactions : k \in 1..Len(report.Unmatched)} \ {0}

ReportedAccounting(report) ==
    UNION {{report.Unmatched[k].AccountingEntries[j] :
                j \in 1..Len(report.Unmatched[k].AccountingEntries)} :
           k \in 1..Len(report.Unmatched)}

(* C18: the report of a run that succeeded names as unmatched exactly the
   bank rows of B and the entries of A that no proposal claimed, and the
   unmatched count of its summary is the number of rows it names. *)
C18_ReportUnmatched ==
    \A r \in Requests :
        req[r].response.code = 200 =>
            LET report == ReconciliationResult(r)
                B == {req[r].bankTransactions[i].ID :
                          i \in 1..Len(req[r].bankTransactions)}
                A == {req[r].accountingEntries[i].ID :
                          i \in 1..Len(req[r].accountingEntries)}
            IN  /\ ReportedBank(report) = B \ ProcessedBankIDs(req[r].matches)
                /\ ReportedAccounting(report)
                       = A \ ProcessedAccountingIDs(req[r].matches)
                /\ report.Summary.unmatched
                       = Cardinality(ReportedBank(report))
                             + Cardinality(ReportedAccounting(report))

(***************************************************************************)
(* The passes on candidates that compete: two bank rows that score PERFECT *)
(* with the same two entries, a bank row without reference that scores 60  *)
(* or 70 with them, two entries that add up to the amount, and an entry    *)
(* within the amount tolerance.                                            *)
(***************************************************************************)
PassBankRows ==
    { [ID |-> 1, Amount |-> 100, TransactionDate |-> 1, ReferenceNumber |-> <<"A">>],
      [ID |-> 2, Amount |-> 100, TransactionDate |-> 1, ReferenceNumber |-> <<"A">>],
      [ID |-> 3, Amount |-> 100, TransactionDate |-> 2, ReferenceNumber |-> <<>>] }

PassAccountingRows ==
    { [ID |-> 1, Amount |-> 100, EntryDate |-> 1, InvoiceNumber |-> <<"A">>],
      [ID |-> 2, Amount |-> 100, EntryDate |-> 1, InvoiceNumber |-> <<"A">>],
      [ID |-> 3, Amount |-> 100, EntryDate |-> 2, InvoiceNumber |-> <<>>],
      [ID |-> 4, Amount |-> 60, EntryDate |-> 1, InvoiceNumber |-> <<"A">>],
      [ID |-> 5, Amount |-> 40, EntryDate |-> 1, InvoiceNumber |-> <<"A">>],
      [ID |-> 6, Amount |-> 101, EntryDate |-> 2, InvoiceNumber |-> <<>>] }

PassInit ==
    /\ sqlStrict = TRUE
    /\ clock = 0
    /\ faults = 0
    /\ activeProcesses = {ProcessKey(EngineWindow)}
    /\ matchEngine = [bankTransactions |-> <<>>, accountingEntries |-> <<>>]
    /\ statusRead = NoStatusRead
    /\ ingestion = NoIngestion
    /\ resolution = NoResolution
    /\ \E B \in DistinctSeqs(PassBankRows, MaxBank),
          A \in DistinctSeqs(PassAccountingRows, MaxAcct) :
        /\ db = TxBegin([EmptyDB EXCEPT !.bank_transactions = RowSet(B),
                                        !.accounting_entries = RowSet(A)], 1)
        /\ req = [r \in Requests |->
                     IF \A q \in Requests : r <= q
                     THEN [IdleRequest EXCEPT !.pc = "setdata",
                                              !.window = EngineWindow,
                                              !.bankLoad = "ok",
                                              !.bankTransactions = B,
                                              !.accountingLoad = "ok",
                                              !.accountingEntries = A]
                     ELSE [IdleRequest EXCEPT !.window = EngineWindow]]

PassSpec == PassInit /\ [][EngineNext]_vars

(* request r has its proposals *)
HasRun(r) == req[r].pc = "persist"

(* a proposal as pass 1 emits it: one_to_one at exactly PERFECT *)
IsPerfectPair(m) == m.Type = MappingOneToOne /\ m.Confidence = PerfectMatchConfidence

(* the position of bank row B[i] of r in the proposal list, 0 when it has none *)
ProposalOf(r, i) ==
    LET ks == {k \in 1..Len(req[r].matches) :
                  req[r].matches[k].BankTransaction.ID = req[r].bankTransactions[i].ID}
    IN  IF ks = {} THEN 0 ELSE CHOOSE k \in ks : \A l \in ks : k <= l

(* the entries claimed by the perfect pairs of the bank rows before B[i] *)
ClaimedByEarlierPerfect(r, i) ==
    UNION {ClaimedEntryIDs(req[r].matches[ProposalOf(r, h)]) :
              h \in {g \in 1..(i - 1) :
                        /\ ProposalOf(r, g) # 0
                        /\ IsPerfectPair(req[r].matches[ProposalOf(r, g)])}}

(* the positions in A of the entries unclaimed at the turn of B[i] in pass 1
   that score exactly PERFECT with it *)
PerfectCandidates(r, i) ==
    {j \in 1..Len(req[r].accountingEntries) :
        LET result == checkOneToOneMatch(req[r].bankTransactions[i],
                                         req[r].accountingEntries[j])
        IN  /\ req[r].accountingEntries[j].ID \notin ClaimedByEarlierPerfect(r, i)
            /\ result # Nil
            /\ result.Confidence = PerfectMatchConfidence}

(* C19: pass 1 is greedy first-fit: a bank row b that has, at its turn in
   input order, an unclaimed entry scoring exactly PERFECT is paired with
   the first such entry in input order, the pair is emitted as one_to_one
   before every proposal of the later passes, in the order of the bank
   rows, and b has no other proposal; a bank row without such an entry has
   no perfect pair. *)
C19_GreedyFirstFit ==
    \A r \in Requests :
        HasRun(r) =>
            \A i \in 1..Len(req[r].bankTransactions) :
                LET cand == PerfectCandidates(r, i)
                    k == ProposalOf(r, i)
                    M == req[r].matches
                IN  IF cand = {}
                    THEN k # 0 => ~IsPerfectPair(M[k])
                    ELSE /\ k # 0
                         /\ IsPerfectPair(M[k])
                         /\ M[k].AccountingEntries
                                = <<req[r].accountingEntries[
                                        CHOOSE j \in cand : \A l \in cand : j <= l]>>
                         /\ \A l \in 1..Len(M) :
                                /\ l # k => M[l].BankTransaction.ID # M[k].BankTransaction.ID
                                /\ l < k => /\ IsPerfectPair(M[l])
                                            /\ \E h \in 1..(i - 1) : ProposalOf(r, h) = l

(* a bank row that found an entry it scores with claimed by the perfect
   pair of an earlier bank row and took a perfect entry further on *)
C19_Witness ==
    \E r \in Requests :
        /\ HasRun(r)
        /\ \E i \in 1..Len(req[r].bankTransactions) :
               LET cand == PerfectCandidates(r, i)
               IN  /\ cand # {}
                   /\ \E j \in 1..Len(req[r].accountingEntries) :
                          /\ \A l \in cand : j < l
                          /\ req[r].accountingEntries[j].ID
                                 \in ClaimedByEarlierPerfect(r, i)
                          /\ checkOneToOneMatch(req[r].bankTransactions[i],
                                                req[r].accountingEntries[j]) # Nil

(* a proposal as pass 3 emits it: one_to_one below PERFECT (an entry that
   scores PERFECT and is unclaimed in pass 3 was unclaimed in pass 1) *)
IsTolerantPair(m) == m.Type = MappingOneToOne /\ m.Confidence < PerfectMatchConfidence

(* bank row B[i] of r reaches pass 3 unclaimed *)
ReachesPass3(r, i) ==
    ProposalOf(r, i) # 0 => IsTolerantPair(req[r].matches[ProposalOf(r, i)])

(* the entries claimed when pass 3 comes to B[i]: those of passes 1 and 2
   and those pass 3 gave to the bank rows before B[i] *)
ClaimedAtPass3Turn(r, i) ==
    UNION {ClaimedEntryIDs(req[r].matches[k]) :
              k \in {l \in 1..Len(req[r].matches) :
                        \/ ~IsTolerantPair(req[r].matches[l])
                        \/ \E h \in 1..(i - 1) : ProposalOf(r, h) = l}}

(* the scores of B[i] with the entries unclaimed at its turn in pass 3 *)
Pass3Scores(r, i) ==
    {Float64Order(checkOneToOneMatch(req[r].bankTransactions[i],
                                     req[r].accountingEntries[j])) :
        j \in {l \in 1..Len(req[r].accountingEntries) :
                  req[r].accountingEntries[l].ID \notin ClaimedAtPass3Turn(r, i)}}

MaxOf(S) == IF S = {} THEN 0 ELSE CHOOSE n \in S : \A m \in S : m <= n

(* C20: in pass 3 a bank row b gets a proposal exactly when the greatest
   one-to-one confidence of b over the entries unclaimed at its turn is at
   least LOW, and the proposal pairs b with an unclaimed entry of that
   greatest confidence. *)
C20_Pass3Maximal ==
    \A r \in Requests :
        HasRun(r) =>
            \A i \in 1..Len(req[r].bankTransactions) :
                ReachesPass3(r, i) =>
                    LET k == ProposalOf(r, i)
                        best == MaxOf(Pass3Scores(r, i))
                    IN  /\ k # 0 <=> best >= 10 * LowMatchConfidence
                        /\ k # 0 =>
                             LET m == req[r].matches[k]
                             IN  /\ m.AccountingEntries[1].ID
                                        \notin ClaimedAtPass3Turn(r, i)
                                 /\ m = checkOneToOneMatch(req[r].bankTransactions[i],
                                                           m.AccountingEntries[1])
                                 /\ Float64Order(m) = best

(* pass 3 passed over an unclaimed entry it accepts, earlier in the input,
   for a later entry of greater confidence, and left another bank row
   without proposal *)
C20_Witness ==
    \E r \in Requests :
        /\ HasRun(r)
        /\ \E i \in 1..Len(req[r].bankTransactions) :
               /\ ReachesPass3(r, i)
               /\ ProposalOf(r, i) = 0
        /\ \E i \in 1..Len(req[r].bankTransactions) :
               /\ ReachesPass3(r, i)
               /\ ProposalOf(r, i) # 0
               /\ \E j, l \in 1..Len(req[r].accountingEntries) :
                      LET m == req[r].matches[ProposalOf(r, i)]
                          other == checkOneToOneMatch(req[r].bankTransactions[i],
                                                      req[r].accountingEntries[j])
                      IN  /\ j < l
                          /\ req[r].accountingEntries[l] = m.AccountingEntries[1]
                          /\ req[r].accountingEntries[j].ID
                                 \notin ClaimedAtPass3Turn(r, i)
                          /\ other # Nil
                          /\ Float64Order(other) < Float64Order(m)

(* C21: when several entries unclaimed at the turn of bank row b in pass 3
   tie for the greatest confidence, the proposal of b takes the one of
   smallest id, in whatever order the loader delivered the entries. *)
C21_TieSmallestID ==
    \A r \in Requests :
        HasRun(r) =>
            \A i \in 1..Len(req[r].bankTransactions) :
                (ReachesPass3(r, i) /\ ProposalOf(r, i) # 0) =>
                    LET m == req[r].matches[ProposalOf(r, i)]
                    IN  \A j \in 1..Len(req[r].accountingEntries) :
                            LET ae == req[r].accountingEntries[j]
                            IN  (/\ ae.ID \notin ClaimedAtPass3Turn(r, i)
                                 /\ Float64Order(checkOneToOneMatch(
                                        req[r].bankTransactions[i], ae))
                                        = Float64Order(m))
                                => m.AccountingEntries[1].ID <= ae.ID

(***************************************************************************)
(* The fan-out pass on candidates that add up: a bank row of 1000 with a   *)
(* reference, the same without reference, a bank row of 700, and entries   *)
(* that give the sum exactly in two ways (700 + 300 with either 700), a    *)
(* sum within the tolerance (700 + 295), a sum of three (700 + 295 + 5),   *)
(* a single entry of the whole amount, dates outside the tolerance and an  *)
(* invoice number that contains the reference without being equal to it.   *)
(***************************************************************************)
FanOutBankRows ==
    { [ID |-> 1, Amount |-> 1000, TransactionDate |-> 1, ReferenceNumber |-> <<"A">>],
      [ID |-> 2, Amount |-> 1000, TransactionDate |-> 1, ReferenceNumber |-> <<>>],
      [ID |-> 3, Amount |-> 700, TransactionDate |-> 2, ReferenceNumber |-> <<"A">>] }

FanOutAccountingRows ==
    { [ID |-> 1, Amount |-> 700, EntryDate |-> 1, InvoiceNumber |-> <<"A">>],
      [ID |-> 2, Amount |-> 300, EntryDate |-> 1, InvoiceNumber |-> <<"A">>],
      [ID |-> 3, Amount |-> 700, EntryDate |-> 1, InvoiceNumber |-> <<"A">>],
      [ID |-> 4, Amount |-> 295, EntryDate |-> 9, InvoiceNumber |-> <<"A", "B">>],
      [ID |-> 5, Amount |-> 1000, EntryDate |-> 5, InvoiceNumber |-> <<"A">>],
      [ID |-> 6, Amount |-> 5, EntryDate |-> 1, InvoiceNumber |-> <<"A">>] }

FanOutInit ==
    /\ sqlStrict = TRUE
    /\ clock = 0
    /\ faults = 0
    /\ activeProcesses = {ProcessKey(EngineWindow)}
    /\ matchEngine = [bankTransactions |-> <<>>, accountingEntries |-> <<>>]
    /\ statusRead = NoStatusRead
    /\ ingestion = NoIngestion
    /\ resolution = NoResolution
    /\ \E B \in DistinctSeqs(FanOutBankRows, MaxBank),
          A \in DistinctSeqs(FanOutAccountingRows, MaxAcct) :
        /\ db = TxBegin([EmptyDB EXCEPT !.bank_transactions = RowSet(B),
                                        !.accounting_entries = RowSet(A)], 1)
        /\ req = [r \in Requests |->
                     IF \A q \in Requests : r <= q
                     THEN [IdleRequest EXCEPT !.pc = "setdata",
                                              !.window = EngineWindow,
                                              !.bankLoad = "ok",
                                              !.bankTransactions = B,
                                              !.accountingLoad = "ok",
                                              !.accountingEntries = A]
                     ELSE [IdleRequest EXCEPT !.window = EngineWindow]]

FanOutSpec == FanOutInit /\ [][EngineNext]_vars

(* the one_to_many proposal of bank row B[i] of r, when it has one *)
HasFanOut(r, i) ==
    /\ ProposalOf(r, i) # 0
    /\ req[r].matches[ProposalOf(r, i)].Type = MappingOneToMany

(* the entries claimed when pass 2 comes to B[i]: those of pass 1 and those
   pass 2 gave to the bank rows before B[i] *)
ClaimedAtPass2Turn(r, i) ==
    UNION {ClaimedEntryIDs(req[r].matches[k]) :
              k \in {l \in 1..Len(req[r].matches) :
                        \/ IsPerfectPair(req[r].matches[l])
                        \/ /\ req[r].matches[l].Type = MappingOneToMany
                           /\ \E h \in 1..(i - 1) : ProposalOf(r, h) = l}}

(* the entries of r the pre-filter keeps for B[i] at its turn in pass 2 *)
FanOutCandidates(r, i) ==
    LET bt == req[r].bankTransactions[i]
    IN  {ae \in RowSet(req[r].accountingEntries) :
            /\ ae.ID \notin ClaimedAtPass2Turn(r, i)
            /\ ae.Amount <= bt.Amount
            /\ bt.ReferenceNumber # <<>>
            /\ ae.InvoiceNumber # <<>>
            /\ Contains(ae.InvoiceNumber, bt.ReferenceNumber)}

RECURSIVE SumOf(_)
SumOf(S) ==
    IF S = {} THEN 0
    ELSE LET ae == CHOOSE x \in S : TRUE IN ae.Amount + SumOf(S \ {ae})

DifferenceOf(bt, S) == Abs(bt.Amount - SumOf(S))

(* the feasible combinations of B[i]: one to three candidates whose sum is
   within the tolerance of the amount *)
Feasible(r, i) ==
    LET bt == req[r].bankTransactions[i]
    IN  {S \in SUBSET FanOutCandidates(r, i) :
            /\ Cardinality(S) \in 1..3
            /\ WithinTolerance(DifferenceOf(bt, S), bt.Amount)}

IDsOf(S) == {ae.ID : ae \in S}

(* the ascending id sequence of S is not after that of T, for |S| = |T| *)
LexLeq(S, T) ==
    \/ IDsOf(S) = IDsOf(T)
    \/ LET diff == (IDsOf(S) \ IDsOf(T)) \cup (IDsOf(T) \ IDsOf(S))
       IN  (CHOOSE n \in diff : \A m \in diff : n <= m) \in IDsOf(S)

(* the proposal of B[i] is a feasible combination of least difference *)
FanOutMinimal(r, i) ==
    LET bt == req[r].bankTransactions[i]
        chosen == RowSet(req[r].matches[ProposalOf(r, i)].AccountingEntries)
    IN  /\ chosen \in Feasible(r, i)
        /\ \A S \in Feasible(r, i) : DifferenceOf(bt, chosen) <= DifferenceOf(bt, S)

(* among the combinations of that difference it is one of the smallest *)
FanOutSmallest(r, i) ==
    LET bt == req[r].bankTransactions[i]
        chosen == RowSet(req[r].matches[ProposalOf(r, i)].AccountingEntries)
    IN  \A S \in Feasible(r, i) :
            DifferenceOf(bt, S) = DifferenceOf(bt, chosen)
                => Cardinality(chosen) <= Cardinality(S)

(* among those of that difference and size it has the least id sequence *)
FanOutLexLeast(r, i) ==
    LET bt == req[r].bankTransactions[i]
        chosen == RowSet(req[r].matches[ProposalOf(r, i)].AccountingEntries)
    IN  \A S \in Feasible(r, i) :
            (/\ DifferenceOf(bt, S) = DifferenceOf(bt, chosen)
             /\ Cardinality(S) = Cardinality(chosen))
                => LexLeq(chosen, S)

(* C22: the one_to_many proposal of a bank row is, among the feasible
   combinations at its turn, one of least |sum - amount|; among these one
   of the smallest; among these the one whose id sequence is least. *)
C22_FanOutBest ==
    \A r \in Requests :
        HasRun(r) =>
            \A i \in 1..Len(req[r].bankTransactions) :
                HasFanOut(r, i) =>
                    /\ FanOutMinimal(r, i)
                    /\ FanOutSmallest(r, i)
                    /\ FanOutLexLeast(r, i)

(* C23: every one_to_many proposal names one to three distinct entries,
   each unclaimed at the turn of its bank row b in pass 2 and each of an
   amount not above b's, and their sum is within AmountTolerancePercent of
   b's amount. *)
C23_FanOutShape ==
    \A r \in Requests :
        HasRun(r) =>
            \A i \in 1..Len(req[r].bankTransactions) :
                HasFanOut(r, i) =>
                    LET m == req[r].matches[ProposalOf(r, i)]
                        bt == req[r].bankTransactions[i]
                        entries == m.AccountingEntries
                    IN  /\ Len(entries) \in 1..3
                        /\ \A j, l \in 1..Len(entries) :
                               j # l => entries[j].ID # entries[l].ID
                        /\ \A j \in 1..Len(entries) :
                               /\ entries[j] \in RowSet(req[r].accountingEntries)
                               /\ entries[j].ID \notin ClaimedAtPass2Turn(r, i)
                               /\ entries[j].Amount <= bt.Amount
                        /\ WithinTolerance(Abs(bt.Amount - SumAmounts(entries)), bt.Amount)

(* a proposal over two entries whose sum is not the amount, for a bank row
   that found an entry of its reference claimed by the bank row before it *)
C23_Witness ==
    \E r \in Requests :
        /\ HasRun(r)
        /\ \E i \in 1..Len(req[r].bankTransactions) :
               /\ HasFanOut(r, i)
               /\ Len(req[r].matches[ProposalOf(r, i)].AccountingEntries) = 2
               /\ req[r].matches[ProposalOf(r, i)].AmountDifference > 0
               /\ \E ae \in RowSet(req[r].accountingEntries) :
                      /\ ae.ID \in ClaimedAtPass2Turn(r, i)
                      /\ Contains(ae.InvoiceNumber,
                                  req[r].bankTransactions[i].ReferenceNumber)

(* C24: a bank row without reference number gets no one_to_many proposal:
   the pre-filter keeps no entry for it, and every entry of a one_to_many
   proposal has an invoice number that contains the reference number of
   the proposal's bank row. *)
C24_FanOutNeedsReference ==
    \A r \in Requests :
        HasRun(r) =>
            \A i \in 1..Len(req[r].bankTransactions) :
                LET bt == req[r].bankTransactions[i]
                IN  /\ bt.ReferenceNumber = <<>> =>
                           /\ ~HasFanOut(r, i)
                           /\ FilterCandidates(bt, req[r].accountingEntries, {}, <<>>)
                                  = <<>>
                    /\ HasFanOut(r, i) =>
                           LET entries == req[r].matches[ProposalOf(r, i)].AccountingEntries
                           IN  \A j \in 1..Len(entries) :
                                   /\ entries[j].InvoiceNumber # <<>>
                                   /\ Contains(entries[j].InvoiceNumber,
                                               bt.ReferenceNumber)

(* a bank row without reference that is left without fan-out although
   unclaimed entries add up to its amount, beside a one_to_many proposal
   with an entry whose invoice number contains the reference and more *)
C24_Witness ==
    \E r \in Requests :
        /\ HasRun(r)
        /\ \E i \in 1..Len(req[r].bankTransactions) :
               LET bt == req[r].bankTransactions[i]
               IN  /\ bt.ReferenceNumber = <<>>
                   /\ \E S \in SUBSET {ae \in RowSet(req[r].accountingEntries) :
                                          /\ ae.ID \notin ClaimedAtPass2Turn(r, i)
                                          /\ ae.Amount <= bt.Amount} :
                          /\ Cardinality(S) \in 1..3
                          /\ WithinTolerance(DifferenceOf(bt, S), bt.Amount)
        /\ \E i \in 1..Len(req[r].bankTransactions) :
               /\ HasFanOut(r, i)
               /\ \E ae \in RowSet(req[r].matches[ProposalOf(r, i)].AccountingEntries) :
                      ae.InvoiceNumber # req[r].bankTransactions[i].ReferenceNumber

(* the request of the worked example: one bank row of 1000 with a
   reference, and the entries 700 and 300 of that invoice number on the
   same day, in either order *)
IsFanOutExample(r) ==
    /\ Len(req[r].bankTransactions) = 1
    /\ req[r].bankTransactions[1].Amount = 1000
    /\ req[r].bankTransactions[1].ReferenceNumber # <<>>
    /\ Len(req[r].accountingEntries) = 2
    /\ {ae.Amount : ae \in RowSet(req[r].accountingEntries)} = {700, 300}
    /\ \A ae \in RowSet(req[r].accountingEntries) :
           /\ ae.InvoiceNumber = req[r].bankTransactions[1].ReferenceNumber
           /\ ae.EntryDate = req[r].bankTransactions[1].TransactionDate

(* C25: the confidence of a one_to_many proposal over the entries S of bank
   row b is, in hundredths, the least of HIGH (95) and 70, plus 20 when the
   sum is b's amount and 10 otherwise, plus 10 when every entry of S is
   within DateToleranceDays of b, plus 10 * matchCount / |S| when b has a
   reference; and for b = 1000 with entries 700 and 300 of b's reference
   on b's day there is exactly one proposal, one_to_many over both entries
   at 95. *)
C25_FanOutConfidence ==
    \A r \in Requests :
        HasRun(r) =>
            /\ \A i \in 1..Len(req[r].bankTransactions) :
                   HasFanOut(r, i) =>
                       LET m == req[r].matches[ProposalOf(r, i)]
                           bt == req[r].bankTransactions[i]
                           S == RowSet(m.AccountingEntries)
                           score ==
                               70
                               + (IF SumOf(S) = bt.Amount THEN 20 ELSE 10)
                               + (IF \A ae \in S :
                                        Abs(bt.TransactionDate - ae.EntryDate)
                                            <= DateToleranceDays
                                  THEN 10 ELSE 0)
                               + (IF bt.ReferenceNumber # <<>>
                                  THEN (10 * Cardinality(
                                                 {ae \in S :
                                                     /\ ae.InvoiceNumber # <<>>
                                                     /\ Contains(ae.InvoiceNumber,
                                                                 bt.ReferenceNumber)}))
                                           \div Cardinality(S)
                                  ELSE 0)
                       IN  m.Confidence = IF score > HighMatchConfidence
                                          THEN HighMatchConfidence ELSE score
            /\ IsFanOutExample(r) =>
                   /\ Len(req[r].matches) = 1
                   /\ req[r].matches[1].Type = MappingOneToMany
                   /\ RowSet(req[r].matches[1].AccountingEntries)
                          = RowSet(req[r].accountingEntries)
                   /\ req[r].matches[1].Confidence = HighMatchConfidence

(* the request of the worked example has run *)
C25_Witness ==
    \E r \in Requests : HasRun(r) /\ IsFanOutExample(r)

(***************************************************************************)
(* The one-to-one score on pairs of every kind: exact, tolerant and        *)
(* rejected amounts (also of a negative bank amount), the same day, days   *)
(* within and outside the tolerance, equal, unequal and missing            *)
(* references.                                                             *)
(***************************************************************************)
ScoreBankRows ==
    { [ID |-> 1, Amount |-> 100, TransactionDate |-> 1, ReferenceNumber |-> <<"A">>],
      [ID |-> 2, Amount |-> 100, TransactionDate |-> 3, ReferenceNumber |-> <<>>],
      [ID |-> 3, Amount |-> 0 - 50, TransactionDate |-> 5, ReferenceNumber |-> <<"A">>] }

ScoreAccountingRows ==
    { [ID |-> 1, Amount |-> 100, EntryDate |-> 1, InvoiceNumber |-> <<"A">>],
      [ID |-> 2, Amount |-> 100, EntryDate |-> 1, InvoiceNumber |-> <<"B">>],
      [ID |-> 3, Amount |-> 100, EntryDate |-> 1, InvoiceNumber |-> <<>>],
      [ID |-> 4, Amount |-> 101, EntryDate |-> 5, InvoiceNumber |-> <<"A">>],
      [ID |-> 5, Amount |-> 102, EntryDate |-> 1, InvoiceNumber |-> <<"A">>],
      [ID |-> 6, Amount |-> 0 - 51, EntryDate |-> 5, InvoiceNumber |-> <<"A">>] }

ScoreInit ==
    /\ sqlStrict = TRUE
    /\ clock = 0
    /\ faults = 0
    /\ activeProcesses = {ProcessKey(EngineWindow)}
    /\ matchEngine = [bankTransactions |-> <<>>, accountingEntries |-> <<>>]
    /\ statusRead = NoStatusRead
    /\ ingestion = NoIngestion
    /\ resolution = NoResolution
    /\ \E B \in DistinctSeqs(ScoreBankRows, MaxBank),
          A \in DistinctSeqs(ScoreAccountingRows, MaxAcct) :
        /\ db = TxBegin([EmptyDB EXCEPT !.bank_transactions = RowSet(B),
                                        !.accounting_entries = RowSet(A)], 1)
        /\ req = [r \in Requests |->
                     IF \A q \in Requests : r <= q
                     THEN [IdleRequest EXCEPT !.pc = "setdata",
                                              !.window = EngineWindow,
                                              !.bankLoad = "ok",
                                              !.bankTransactions = B,
                                              !.accountingLoad = "ok",
                                              !.accountingEntries = A]
                     ELSE [IdleRequest EXCEPT !.window = EngineWindow]]

ScoreSpec == ScoreInit /\ [][EngineNext]_vars

(* the amount and date parts of the score of a pair, in hundredths *)
AmountAndDateScore(bt, ae) ==
    (IF bt.Amount = ae.Amount THEN 40 ELSE 30)
    + (IF bt.TransactionDate = ae.EntryDate THEN 30
       ELSE IF Abs(bt.TransactionDate - ae.EntryDate) \in 1..DateToleranceDays
            THEN 20 ELSE 0)

BothReferences(bt, ae) == bt.ReferenceNumber # <<>> /\ ae.InvoiceNumber # <<>>

(* checkOneToOneMatch(bt, ae) is a candidate of that score and of the
   amount difference of the pair when the amount is accepted and the score
   reaches LOW, and no candidate otherwise *)
ReturnsByScore(bt, ae, score) ==
    LET diff == Abs(bt.Amount - ae.Amount)
        result == checkOneToOneMatch(bt, ae)
    IN  IF diff # 0 /\ diff * 100 > bt.Amount * AmountTolerancePercent
        THEN result = Nil
        ELSE IF score >= LowMatchConfidence
             THEN /\ result # Nil
                  /\ result.Confidence = score
                  /\ result.AmountDifference = diff
             ELSE result = Nil

(* C26 as stated: the score of a pair is its amount part plus its date part
   plus 30 for equal non-empty references, and checkOneToOneMatch returns a
   candidate of that score exactly when the amount is accepted and the
   score is at least LOW. *)
C26_ScoreAsStated ==
    \A r \in Requests :
        HasRun(r) =>
            \A bt \in RowSet(req[r].bankTransactions) :
                \A ae \in RowSet(req[r].accountingEntries) :
                    ReturnsByScore(bt, ae,
                        AmountAndDateScore(bt, ae)
                        + (IF BothReferences(bt, ae)
                              /\ bt.ReferenceNumber = ae.InvoiceNumber
                           THEN 30 ELSE 0))

(* C26 amended: as stated, except that the score of a pair whose references
   are both non-empty and unequal is 0, so that such a pair is never a
   candidate. *)
C26_ScoreWithVeto ==
    \A r \in Requests :
        HasRun(r) =>
            \A bt \in RowSet(req[r].bankTransactions) :
                \A ae \in RowSet(req[r].accountingEntries) :
                    ReturnsByScore(bt, ae,
                        IF BothReferences(bt, ae)
                        THEN IF bt.ReferenceNumber = ae.InvoiceNumber
                             THEN AmountAndDateScore(bt, ae) + 30
                             ELSE 0
                        ELSE AmountAndDateScore(bt, ae))

(* the engine has scored a pair of exact amount, two days apart, without
   references, which is accepted at 60, and a pair of unequal references
   whose amount and date parts reach LOW *)
C26_Witness ==
    \E r \in Requests :
        /\ HasRun(r)
        /\ \E bt \in RowSet(req[r].bankTransactions) :
               \E ae \in RowSet(req[r].accountingEntries) :
                   /\ bt.ReferenceNumber = <<>> /\ ae.InvoiceNumber = <<>>
                   /\ bt.Amount = ae.Amount
                   /\ Abs(bt.TransactionDate - ae.EntryDate) = 2
                   /\ checkOneToOneMatch(bt, ae) # Nil
                   /\ checkOneToOneMatch(bt, ae).Confidence = LowMatchConfidence
        /\ \E bt \in RowSet(req[r].bankTransactions) :
               \E ae \in RowSet(req[r].accountingEntries) :
                   /\ BothReferences(bt, ae)
                   /\ bt.ReferenceNumber # ae.InvoiceNumber
                   /\ AmountAndDateScore(bt, ae) >= LowMatchConfidence
                   /\ checkOneToOneMatch(bt, ae) = Nil

(* C27: the proposals of a request name only bank rows and entries of its
   own candidates B and A, also when another request on another window
   runs at the same time on the engine the service shares. *)
C27_OwnCandidatesOnly ==
    \A r \in Requests : OwnCandidates(r)

(* C28: the batch key a successful StartReconciliation returned is
   resolvable: once the run answered 200, the query of
   GetReconciliationStatus for that key finds a row, whatever the input,
   a run with no proposal and no unclaimed entry included. *)
C28_KeyResolvable ==
    \A r \in Requests :
        req[r].response.code = 200 =>
            GetReconciliationByBatchID(db, req[r].response.BatchID) # {}

(* another request that holds the key of exactly the window of r *)
SameWindowInFlight(r) ==
    \E q \in Requests \ {r} :
        /\ req[q].window = req[r].window
        /\ InFlight(q)

(* C29: a request is answered 409 only when, at its admission, another
   request for exactly the same (from_date, to_date) is in flight.  A
   request whose window differs from every window in flight is admitted,
   and so is one whose window was that of a run that has finished. *)
C29_RejectedOnlyByTwin ==
    [][\A r \in Requests :
           (req[r].pc = "idle" /\ req'[r].pc # "idle") =>
               IF SameWindowInFlight(r)
               THEN req'[r].pc = "rejected" /\ req'[r].response.code = 409
               ELSE req'[r].pc = "load" /\ req'[r].response.code # 409]_vars

(* a request answered 409 while its twin is in flight *)
C29_Witness ==
    \E r \in Requests :
        /\ req[r].pc = "rejected"
        /\ req[r].response.code = 409
        /\ SameWindowInFlight(r)

(* a request is past its admission on the window of a run that finished
   with 200 *)
C29_AfterFinishedRun ==
    \E r, q \in Requests :
        /\ r # q
        /\ req[q].pc = "done"
        /\ req[q].response.code = 200
        /\ req[r].window = req[q].window
        /\ req[r].pc = "persist"

(* two requests on different windows are in flight together *)
C29_DifferentWindowsTogether ==
    \E r, q \in Requests :
        /\ req[r].window # req[q].window
        /\ InFlight(r)
        /\ InFlight(q)

(* the mappings of the store that requests other than r have committed *)
MappedByOthers(r) == {rm \in db.committed.mappings : rm.by # r}

(* C30: when the requests run one after the other, a run that starts after
   an earlier run has committed loads only rows that carry no mapping, and
   no row ends up with mappings of two runs. *)
C30_SequentialRerun ==
    /\ \A r \in Requests :
           InFlight(r) =>
               /\ \A bt \in RowSet(req[r].bankTransactions) :
                      \A rm \in MappedByOthers(r) : rm.bank_transaction_id # bt.ID
               /\ \A ae \in RowSet(req[r].accountingEntries) :
                      \A rm \in MappedByOthers(r) : rm.accounting_entry_id # ae.ID
    /\ \A m, n \in db.committed.mappings :
           m.by # n.by =>
               /\ m.bank_transaction_id # n.bank_transaction_id
               /\ m.accounting_entry_id # n.accounting_entry_id

(* two runs have committed mappings one after the other, and the window of
   the later one holds an entry the earlier one had mapped *)
C30_Witness ==
    \E r, q \in Requests :
        /\ r # q
        /\ RowsBy(db.committed.mappings, q) # {}
        /\ RowsBy(db.committed.mappings, r) # {}
        /\ \E rm \in RowsBy(db.committed.mappings, q) :
               \E ae \in db.accounting_entries :
                   /\ ae.ID = rm.accounting_entry_id
                   /\ ae.EntryDate >= req[r].window[1]
                   /\ ae.EntryDate <= req[r].window[2]
                   /\ ae \notin RowSet(req[r].accountingEntries)

====
